---- MODULE Spec2Model ----
(***************************************************************************)
(* FlexCAN message-buffer driver of the S32K144 HAL (lib/driver/can/can.c, *)
(* lib/driver/can/can.h): the driver's per-instance tables, the registers  *)
(* of the three controllers, the foreground API calls one register access  *)
(* at a time, the interrupt dispatcher, and the controller hardware as the *)
(* driver's environment.                                                   *)
(*                                                                         *)
(* A 32-bit register word is the tuple of its four bytes, most significant *)
(* first (<<b31..24, b23..16, b15..8, b7..0>>); a 32-bit flag register     *)
(* (IFLAG1, IMASK1) is the set of the bit positions that are 1.            *)
(***************************************************************************)
EXTENDS Integers, Sequences, FiniteSets, TLC

(***************************************************************************)
(* Program constants                                                       *)
(***************************************************************************)
CAN_INSTANCE_COUNT == 3
CAN_MB_COUNT == 32
MSG_BUF_SIZE == 4
CAN_MAX_DATA_LENGTH == 8
CAN_TX_MB_START == 8
CAN_TX_MB_COUNT == 8
CAN_RX_MB_START == 16
CAN_FREEZE_TIMEOUT == 10000
CAN_DEFAULT_CLK_FREQ == 40000000
RAM_WORDS == 128
RXIMR_INIT_COUNT == 16
POLLS_PER_MS == 1000

CAN_CS_CODE_TX_INACTIVE == 8
CAN_CS_CODE_TX_ABORT == 9
CAN_CS_CODE_TX_DATA == 12
CAN_CS_CODE_RX_INACTIVE == 0
CAN_CS_CODE_RX_EMPTY == 4
CAN_CS_CODE_RX_FULL == 2
CAN_CS_CODE_RX_OVERRUN == 6

CAN_ID_STD == 0
CAN_ID_EXT == 1
CAN_FRAME_DATA == 0
CAN_FRAME_REMOTE == 1
CAN_MODE_NORMAL == 0
CAN_MODE_LOOPBACK == 1
CAN_MODE_LISTEN_ONLY == 2

STATUS_SUCCESS == "STATUS_SUCCESS"
STATUS_ERROR == "STATUS_ERROR"
STATUS_BUSY == "STATUS_BUSY"
STATUS_TIMEOUT == "STATUS_TIMEOUT"
STATUS_INVALID_PARAM == "STATUS_INVALID_PARAM"
STATUS_NOT_INITIALIZED == "STATUS_NOT_INITIALIZED"

CAN_EVENT_NONE == "CAN_EVENT_NONE"
CAN_EVENT_TX_COMPLETE == "CAN_EVENT_TX_COMPLETE"
CAN_EVENT_RX_COMPLETE == "CAN_EVENT_RX_COMPLETE"
CAN_EVENT_ERROR == "CAN_EVENT_ERROR"
CAN_EVENT_BUS_OFF == "CAN_EVENT_BUS_OFF"
CAN_EVENT_OVERRUN == "CAN_EVENT_OVERRUN"

CAN_SRV_EVENT_TX_COMPLETE == "CAN_SRV_EVENT_TX_COMPLETE"
CAN_SRV_EVENT_RX_COMPLETE == "CAN_SRV_EVENT_RX_COMPLETE"
CAN_SRV_EVENT_ERROR == "CAN_SRV_EVENT_ERROR"
CAN_SRV_EVENT_BUS_OFF == "CAN_SRV_EVENT_BUS_OFF"
CAN_SRV_SUCCESS == "CAN_SRV_SUCCESS"
CAN_SRV_NOT_INITIALIZED == "CAN_SRV_NOT_INITIALIZED"

Instances == 0 .. (CAN_INSTANCE_COUNT - 1)
Mailboxes == 0 .. (CAN_MB_COUNT - 1)

(***************************************************************************)
(* 32-bit words and the fields of a message buffer                         *)
(***************************************************************************)
Pow2(n) == 2 ^ n

\* the word holding the number n, 0 <= n < 2^31
Word(n) == << (n \div Pow2(24)) % 256, (n \div Pow2(16)) % 256,
              (n \div Pow2(8)) % 256, n % 256 >>

ZeroWord == Word(0)
AllOnes == << 255, 255, 255, 255 >>

\* (cs & CAN_CS_CODE_MASK) >> CAN_CS_CODE_SHIFT: bits 24..27
CsCode(cs) == cs[1] % 16
\* (cs & CAN_WMBn_CS_DLC_MASK) >> CAN_WMBn_CS_DLC_SHIFT: bits 16..19
CsDlc(cs) == cs[2] % 16
\* cs & CAN_WMBn_CS_RTR_MASK: bit 20
CsRtr(cs) == (cs[2] \div 16) % 2
\* cs & CAN_WMBn_CS_IDE_MASK: bit 21
CsIde(cs) == (cs[2] \div 32) % 2
\* cs & CAN_CS_SRR_MASK: bit 22
CsSrr(cs) == (cs[2] \div 64) % 2

\* the CS word code << 24 | srr << 22 | ide << 21 | rtr << 20 | dlc << 16
\* (dlc < 16, so the fields are disjoint and | is +)
MakeCs(code, srr, ide, rtr, dlc) ==
    Word(code * Pow2(24) + srr * Pow2(22) + ide * Pow2(21) + rtr * Pow2(20)
         + dlc * Pow2(16))

\* an encoder that leaves every identifier in bits 0..28
EncodeId_AlwaysLow(id, idType) == Word(id % Pow2(29))

\* (id << CAN_ID_STD_SHIFT) & CAN_ID_STD_MASK: the low 11 bits of id land in bits 18..28
\* (id << CAN_ID_EXT_SHIFT) & CAN_ID_EXT_MASK: the low 29 bits of id stay in bits 0..28
EncodeId(id, idType) ==
    IF idType = CAN_ID_STD THEN Word((id % Pow2(11)) * Pow2(18))
    ELSE Word(id % Pow2(29))

\* bits 0..28 of a word, as a number
Low29(w) == (w[1] % 32) * Pow2(24) + w[2] * Pow2(16) + w[3] * Pow2(8) + w[4]

\* a decoder that takes the identifier from bits 0..28 whatever the type
DecodeId_Low(w, ide) == Low29(w)

\* (id & CAN_ID_EXT_MASK) >> 0 when IDE is set, (id & CAN_ID_STD_MASK) >> 18 otherwise
DecodeId(w, ide) ==
    IF ide # 0 THEN Low29(w) ELSE Low29(w) \div Pow2(18)

\* data[0] << 24 | data[1] << 16 | data[2] << 8 | data[3], and the same for 4..7
PackData0(data) == << data[1], data[2], data[3], data[4] >>
PackData1(data) == << data[5], data[6], data[7], data[8] >>

\* an unpacker that takes the bytes of each word from the low end
UnpackData_LowFirst(d0, d1) == << d0[4], d0[3], d0[2], d0[1], d1[4], d1[3], d1[2], d1[1] >>

\* (uint8_t)(data0 >> 24), >> 16, >> 8, >> 0, then data1 alike
UnpackData(d0, d1) == << d0[1], d0[2], d0[3], d0[4], d1[1], d1[2], d1[3], d1[4] >>

\* mbIndex * MSG_BUF_SIZE
CAN_GetMbOffset(mbIdx) == mbIdx * MSG_BUF_SIZE

(***************************************************************************)
(* Application values                                                      *)
(***************************************************************************)
ZeroData == << 0, 0, 0, 0, 0, 0, 0, 0 >>
ZeroMsg == [id |-> 0, idType |-> CAN_ID_STD, frameType |-> CAN_FRAME_DATA,
            dataLength |-> 0, data |-> ZeroData]

\* the caller's message buffer before a receive call has filled it
StaleMsg == [id |-> 1365, idType |-> CAN_ID_EXT, frameType |-> CAN_FRAME_REMOTE,
             dataLength |-> 5, data |-> << 90, 90, 90, 90, 90, 90, 90, 90 >>]

MsgA == [id |-> 291, idType |-> CAN_ID_STD, frameType |-> CAN_FRAME_DATA,
         dataLength |-> 8, data |-> << 1, 2, 3, 4, 5, 6, 7, 8 >>]
MsgB == [id |-> 305419896, idType |-> CAN_ID_EXT, frameType |-> CAN_FRAME_REMOTE,
         dataLength |-> 3, data |-> << 170, 187, 204, 0, 0, 0, 0, 255 >>]
\* dataLength = CAN_MAX_DATA_LENGTH + 1
MsgTooLong == [MsgA EXCEPT !.dataLength = 9]

\* the caller's can_timing_config_t before CAN_CalculateTiming has filled it
StaleTiming == [propSeg |-> 255, phaseSeg1 |-> 255, phaseSeg2 |-> 255,
                rJumpWidth |-> 255, preDiv |-> 255]

\* a pointer argument: NULL, or the address of a value
Null == [null |-> TRUE, v |-> ZeroMsg]
Ptr(m) == [null |-> FALSE, v |-> m]

(***************************************************************************)
(* Registers of one controller                                             *)
(***************************************************************************)
\* MCR after a power-on reset: module disabled, freeze requested, not ready
PowerOnMcr == {"MDIS", "FRZ", "HALT", "NOTRDY"}

PowerOnCtrl1 == [presdiv |-> 0, rjw |-> 0, pseg1 |-> 0, pseg2 |-> 0, propseg |-> 0,
                 smp |-> 0, lpb |-> 0, lom |-> 0, clksrc |-> 0]

\* message-buffer RAM is not cleared by a reset: it holds the same junk word everywhere
PowerOnRegs(junk) ==
    [MCR |-> PowerOnMcr, MAXMB |-> 15, CTRL1 |-> PowerOnCtrl1,
     RAMn |-> [k \in 0 .. (RAM_WORDS - 1) |-> junk],
     RXIMR |-> [m \in Mailboxes |-> junk],
     RXMGMASK |-> AllOnes, ECR |-> 0, IFLAG1 |-> {}, IMASK1 |-> {},
     lock |-> -1, serviced |-> {}]

\* the four words of mailbox mb
MbCs(r, mb) == r.RAMn[CAN_GetMbOffset(mb)]
MbId(r, mb) == r.RAMn[CAN_GetMbOffset(mb) + 1]
MbData0(r, mb) == r.RAMn[CAN_GetMbOffset(mb) + 2]
MbData1(r, mb) == r.RAMn[CAN_GetMbOffset(mb) + 3]

(***************************************************************************)
(* Register accesses.  A call's straight-line code is the sequence of its  *)
(* register accesses; the foreground performs them one at a time.          *)
(*   W    reg = v          RAMn[k], RXIMR[k], CTRL1, RXMGMASK, ECR         *)
(*   W1C  reg = mask       IFLAG1: writing 1 clears the bit                *)
(*   SET  reg |= bits      MCR, IMASK1, CTRL1 (v is a field name)          *)
(*   CLR  reg &= ~bits     MCR, CTRL1 (v is a field name)                  *)
(*   FLD  MCR = (MCR & ~CAN_MCR_MAXMB_MASK) | v                            *)
(*   FILL for (i = 0; i < k; i++) reg[i] = v                               *)
(*   R    read into the local variable `into`                              *)
(***************************************************************************)
Wr(reg, k, v) == [a |-> "W", r |-> reg, k |-> k, v |-> v, into |-> ""]
W1c(reg, mask) == [a |-> "W1C", r |-> reg, k |-> 0, v |-> mask, into |-> ""]
SetBits(reg, bits) == [a |-> "SET", r |-> reg, k |-> 0, v |-> bits, into |-> ""]
ClrBits(reg, bits) == [a |-> "CLR", r |-> reg, k |-> 0, v |-> bits, into |-> ""]
Fld(reg, v) == [a |-> "FLD", r |-> reg, k |-> 0, v |-> v, into |-> ""]
Fill(reg, k, v) == [a |-> "FILL", r |-> reg, k |-> k, v |-> v, into |-> ""]
Rd(reg, k, into) == [a |-> "R", r |-> reg, k |-> k, v |-> 0, into |-> into]

\* what the log keeps of an access
Entry(acc) == [a |-> acc.a, r |-> acc.r, k |-> acc.k]
IsWrite(e) == e.a # "R"

\* the lock is released: the mailbox that held it has been serviced
Unlock(r) ==
    IF r.lock = -1 THEN r
    ELSE [r EXCEPT !.lock = -1, !.serviced = @ \cup {r.lock}]

\* the registers after one access.  Reading the CS word of an armed receive
\* mailbox locks that mailbox; reading TIMER, or locking another mailbox,
\* releases the lock.
Apply(r, acc) ==
    CASE acc.a = "W" /\ acc.r = "RAMn" -> [r EXCEPT !.RAMn[acc.k] = acc.v]
      [] acc.a = "W" /\ acc.r = "RXIMR" -> [r EXCEPT !.RXIMR[acc.k] = acc.v]
      [] acc.a = "W" /\ acc.r = "CTRL1" -> [r EXCEPT !.CTRL1 = acc.v]
      [] acc.a = "W" /\ acc.r = "RXMGMASK" -> [r EXCEPT !.RXMGMASK = acc.v]
      [] acc.a = "W" /\ acc.r = "ECR" -> [r EXCEPT !.ECR = acc.v]
      [] acc.a = "FILL" /\ acc.r = "RAMn" ->
            [r EXCEPT !.RAMn = [n \in DOMAIN @ |-> IF n < acc.k THEN acc.v ELSE @[n]]]
      [] acc.a = "FILL" /\ acc.r = "RXIMR" ->
            [r EXCEPT !.RXIMR = [n \in DOMAIN @ |-> IF n < acc.k THEN acc.v ELSE @[n]]]
      [] acc.a = "W1C" /\ acc.r = "IFLAG1" -> [r EXCEPT !.IFLAG1 = @ \ acc.v]
      [] acc.a = "SET" /\ acc.r = "IMASK1" -> [r EXCEPT !.IMASK1 = @ \cup acc.v]
      [] acc.a = "SET" /\ acc.r = "MCR" -> [r EXCEPT !.MCR = @ \cup acc.v]
      [] acc.a = "CLR" /\ acc.r = "MCR" -> [r EXCEPT !.MCR = @ \ acc.v]
      [] acc.a = "FLD" /\ acc.r = "MCR" -> [r EXCEPT !.MAXMB = acc.v]
      [] acc.a = "SET" /\ acc.r = "CTRL1" -> [r EXCEPT !.CTRL1[acc.v] = 1]
      [] acc.a = "CLR" /\ acc.r = "CTRL1" -> [r EXCEPT !.CTRL1[acc.v] = 0]
      [] acc.a = "R" /\ acc.r = "RAMn" /\ acc.k % MSG_BUF_SIZE = 0 ->
            IF CsCode(r.RAMn[acc.k]) \in {CAN_CS_CODE_RX_EMPTY, CAN_CS_CODE_RX_FULL,
                                          CAN_CS_CODE_RX_OVERRUN}
            THEN IF r.lock = acc.k \div MSG_BUF_SIZE THEN r
                 ELSE [Unlock(r) EXCEPT !.lock = acc.k \div MSG_BUF_SIZE]
            ELSE r
      [] acc.a = "R" /\ acc.r = "TIMER" -> Unlock(r)
      [] OTHER -> r

\* the value a read access returns
ReadValue(r, acc) ==
    CASE acc.r = "RAMn" -> r.RAMn[acc.k]
      [] acc.r = "IFLAG1" -> r.IFLAG1
      [] OTHER -> ZeroWord

RECURSIVE ApplyAll(_, _)
ApplyAll(r, accs) ==
    IF accs = << >> THEN r ELSE ApplyAll(Apply(r, Head(accs)), Tail(accs))

Entries(accs) == [n \in 1 .. Len(accs) |-> Entry(accs[n])]

(***************************************************************************)
(* State                                                                   *)
(***************************************************************************)
VARIABLES
    s_canInitialized,   \* can.c: initialized flag of each instance
    s_canCallbacks,     \* can.c: TRUE when a callback is registered (not NULL)
    dut,                \* the instance the application drives: 0, 1 or 2
    regs,               \* the registers of that controller, s_canBases[dut]
    op,                 \* the API call in progress in the foreground, or "idle"
    arg,                \* its arguments
    pc,                 \* its position
    loc,                \* its local variables
    ret,                \* its return status, once pc = "ret"
    log,                \* the register accesses it has performed so far
    outMsg,             \* the caller's can_message_t that a receive call fills
    isr,                \* the dispatcher invocation that has just run, if any
    timing,             \* the caller's can_timing_config_t that CAN_CalculateTiming fills
    txMsg,              \* the can_message_t the application composes for its send calls
    srv                 \* can_srv.c: the service layer's variables and its last forwarding

vars == << s_canInitialized, s_canCallbacks, dut, regs, op, arg, pc, loc, ret, log,
           outMsg, isr, timing, txMsg, srv >>
drv == << s_canInitialized, s_canCallbacks >>
fg == << op, arg, pc, loc, ret, log, outMsg >>

NoFilter == [id |-> 0, mask |-> ZeroWord, idType |-> CAN_ID_STD]
NoCfg == [instance |-> 0, clockSource |-> 0, baudRate |-> 0, mode |-> CAN_MODE_NORMAL,
          enableSelfReception |-> FALSE, useRxFifo |-> FALSE]
NoArg == [inst |-> 0, mb |-> 0, msg |-> Null, filter |-> NoFilter, filterNull |-> FALSE,
          cfg |-> NoCfg, cfgNull |-> FALSE, tmo |-> 0, cb |-> FALSE,
          isBusyNull |-> FALSE, canClockHz |-> 0, baudRate |-> 0, timingNull |-> FALSE]
NoLoc == [i |-> 1, cs |-> ZeroWord, id |-> ZeroWord, data0 |-> ZeroWord,
          data1 |-> ZeroWord, dummy |-> ZeroWord, timeout |-> 0, timeoutCount |-> 0,
          isBusy |-> FALSE, phase |-> "", mbMask |-> {}, status |-> "", numTq |-> 0,
          preDiv |-> 0, divByZero |-> FALSE]
\* s_can_initialized, s_user_callback (TRUE when not NULL); then the driver
\* event the bridge was last invoked with and the user callback invocations it made
NoSrv == [s_can_initialized |-> FALSE, s_user_callback |-> FALSE, st |-> "idle",
          event |-> CAN_EVENT_NONE, message |-> Null, calls |-> << >>, ret |-> ""]
NoIsr == [st |-> "idle", inst |-> 0, iflag1 |-> {}, mb |-> -1, events |-> << >>,
          log |-> << >>]

Idle == op = "idle" /\ isr.st = "idle"

\* a call starts: either validation rejects it (status # "ok") or it runs
Begin(name, a, status, firstPc, l, lg) ==
    /\ Idle
    /\ a.inst \in Instances => a.inst = dut
    /\ op' = name
    /\ arg' = a
    /\ log' = lg
    /\ IF status # "ok"
       THEN /\ pc' = "ret"
            /\ ret' = status
            /\ loc' = NoLoc
       ELSE /\ pc' = firstPc
            /\ ret' = ""
            /\ loc' = l

(***************************************************************************)
(* CAN_Send                                                                *)
(***************************************************************************)
\* a CAN_Send that does not check the payload length
CAN_Send_Validate_NoLength(instance, mbIndex, message) ==
    IF instance >= CAN_INSTANCE_COUNT \/ message.null THEN STATUS_INVALID_PARAM
    ELSE IF ~s_canInitialized[instance] THEN STATUS_NOT_INITIALIZED
    ELSE IF mbIndex < CAN_TX_MB_START \/ mbIndex >= CAN_TX_MB_START + CAN_TX_MB_COUNT
         THEN STATUS_INVALID_PARAM
    ELSE "ok"

CAN_Send_Validate(instance, mbIndex, message) ==
    IF instance >= CAN_INSTANCE_COUNT \/ message.null THEN STATUS_INVALID_PARAM
    ELSE IF ~s_canInitialized[instance] THEN STATUS_NOT_INITIALIZED
    ELSE IF mbIndex < CAN_TX_MB_START \/ mbIndex >= CAN_TX_MB_START + CAN_TX_MB_COUNT
         THEN STATUS_INVALID_PARAM
    ELSE IF message.v.dataLength > CAN_MAX_DATA_LENGTH THEN STATUS_INVALID_PARAM
    ELSE "ok"

\* the CS word CAN_Send builds
CAN_Send_Cs(m) ==
    MakeCs(CAN_CS_CODE_TX_DATA,
           IF m.idType = CAN_ID_STD THEN 1 ELSE 0,
           IF m.idType = CAN_ID_EXT THEN 1 ELSE 0,
           IF m.frameType = CAN_FRAME_REMOTE THEN 1 ELSE 0,
           m.dataLength)

\* a CAN_Send that activates the mailbox before its payload is written
CAN_Send_Program_CsFirst(mbIndex, m) ==
    LET mbOffset == mbIndex * MSG_BUF_SIZE IN
    << W1c("IFLAG1", {mbIndex}),
       Wr("RAMn", mbOffset + 0, CAN_Send_Cs(m)),
       Wr("RAMn", mbOffset + 2, PackData0(m.data)),
       Wr("RAMn", mbOffset + 3, PackData1(m.data)),
       Wr("RAMn", mbOffset + 1, EncodeId(m.id, m.idType)) >>

\* a CAN_Send that clears the flag of every mailbox
CAN_Send_Program_ClearAll(mbIndex, m) ==
    LET mbOffset == mbIndex * MSG_BUF_SIZE IN
    << W1c("IFLAG1", Mailboxes),
       Wr("RAMn", mbOffset + 2, PackData0(m.data)),
       Wr("RAMn", mbOffset + 3, PackData1(m.data)),
       Wr("RAMn", mbOffset + 1, EncodeId(m.id, m.idType)),
       Wr("RAMn", mbOffset + 0, CAN_Send_Cs(m)) >>

CAN_Send_Program(mbIndex, m) ==
    LET mbOffset == mbIndex * MSG_BUF_SIZE IN
    << W1c("IFLAG1", {mbIndex}),
       Wr("RAMn", mbOffset + 2, PackData0(m.data)),
       Wr("RAMn", mbOffset + 3, PackData1(m.data)),
       Wr("RAMn", mbOffset + 1, EncodeId(m.id, m.idType)),
       Wr("RAMn", mbOffset + 0, CAN_Send_Cs(m)) >>

CAN_Send(instance, mbIndex, message) ==
    /\ Begin("CAN_Send", [NoArg EXCEPT !.inst = instance, !.mb = mbIndex, !.msg = message],
             CAN_Send_Validate(instance, mbIndex, message), "run", NoLoc, << >>)
    /\ UNCHANGED << drv, dut, timing, txMsg, srv, regs, outMsg, isr >>

(***************************************************************************)
(* CAN_Receive                                                             *)
(***************************************************************************)
CAN_Receive_Validate(instance, mbIndex, message) ==
    IF instance >= CAN_INSTANCE_COUNT \/ message.null THEN STATUS_INVALID_PARAM
    ELSE IF ~s_canInitialized[instance] THEN STATUS_NOT_INITIALIZED
    ELSE IF mbIndex < CAN_RX_MB_START \/ mbIndex >= CAN_MB_COUNT THEN STATUS_INVALID_PARAM
    ELSE "ok"

\* a CAN_Receive that does not look at the pending flag
CAN_Receive_Check_Ignored(iflag1, mbIndex) == "ok"

\* "Check if message available": (base->IFLAG1 & mbMask) == 0U returns STATUS_ERROR
CAN_Receive_Check(iflag1, mbIndex) ==
    IF mbIndex \notin iflag1 THEN STATUS_ERROR ELSE "ok"

\* validation, then the read of IFLAG1 (the call's first register access)
CAN_Receive_Entry(instance, mbIndex, message) ==
    LET v == CAN_Receive_Validate(instance, mbIndex, message) IN
    IF v # "ok" THEN v ELSE CAN_Receive_Check(regs.IFLAG1, mbIndex)

\* the log of a receive call that got past validation starts with the IFLAG1 read
CAN_Receive_EntryLog(instance, mbIndex, message) ==
    IF CAN_Receive_Validate(instance, mbIndex, message) = "ok"
    THEN << Entry(Rd("IFLAG1", 0, "")) >> ELSE << >>

\* a CAN_Receive that clears the flag before it has read the payload
CAN_Receive_Program_ClearFirst(mbIndex) ==
    LET mbOffset == mbIndex * MSG_BUF_SIZE IN
    << Rd("RAMn", mbOffset + 0, "cs"),
       W1c("IFLAG1", {mbIndex}),
       Rd("RAMn", mbOffset + 1, "id"),
       Rd("RAMn", mbOffset + 2, "data0"),
       Rd("RAMn", mbOffset + 3, "data1"),
       Rd("TIMER", 0, "dummy"),
       Rd("TIMER", 0, "dummy"),
       W1c("IFLAG1", {mbIndex}) >>

CAN_Receive_Program(mbIndex) ==
    LET mbOffset == mbIndex * MSG_BUF_SIZE IN
    << Rd("RAMn", mbOffset + 0, "cs"),
       Rd("RAMn", mbOffset + 1, "id"),
       Rd("RAMn", mbOffset + 2, "data0"),
       Rd("RAMn", mbOffset + 3, "data1"),
       Rd("TIMER", 0, "dummy"),
       W1c("IFLAG1", {mbIndex}),
       Rd("TIMER", 0, "dummy"),
       W1c("IFLAG1", {mbIndex}) >>

\* the message CAN_Receive stores through its message pointer
CAN_Receive_Message(l) ==
    [id |-> DecodeId(l.id, CsIde(l.cs)),
     idType |-> IF CsIde(l.cs) # 0 THEN CAN_ID_EXT ELSE CAN_ID_STD,
     frameType |-> IF CsRtr(l.cs) # 0 THEN CAN_FRAME_REMOTE ELSE CAN_FRAME_DATA,
     dataLength |-> CsDlc(l.cs),
     data |-> UnpackData(l.data0, l.data1)]

CAN_Receive(instance, mbIndex, message) ==
    /\ Begin("CAN_Receive", [NoArg EXCEPT !.inst = instance, !.mb = mbIndex, !.msg = message],
             CAN_Receive_Entry(instance, mbIndex, message), "run", NoLoc,
             CAN_Receive_EntryLog(instance, mbIndex, message))
    /\ UNCHANGED << drv, dut, timing, txMsg, srv, regs, outMsg, isr >>

(***************************************************************************)
(* CAN_ConfigRxFilter, CAN_ConfigTxMailbox                                 *)
(***************************************************************************)
CAN_ConfigRxFilter_Validate(instance, mbIndex, filterNull) ==
    IF instance >= CAN_INSTANCE_COUNT \/ filterNull THEN STATUS_INVALID_PARAM
    ELSE IF ~s_canInitialized[instance] THEN STATUS_NOT_INITIALIZED
    ELSE IF mbIndex < CAN_RX_MB_START \/ mbIndex >= CAN_MB_COUNT THEN STATUS_INVALID_PARAM
    ELSE "ok"

CAN_ConfigRxFilter_Program(mbIndex, filter) ==
    LET mbOffset == mbIndex * MSG_BUF_SIZE IN
    << Wr("RAMn", mbOffset + 1, EncodeId(filter.id, filter.idType)),
       Wr("RAMn", mbOffset + 0,
          MakeCs(CAN_CS_CODE_RX_EMPTY, 0, IF filter.idType = CAN_ID_EXT THEN 1 ELSE 0, 0, 0)),
       Wr("RXIMR", mbIndex, filter.mask),
       SetBits("IMASK1", {mbIndex}) >>

CAN_ConfigRxFilter(instance, mbIndex, filter, filterNull) ==
    /\ Begin("CAN_ConfigRxFilter",
             [NoArg EXCEPT !.inst = instance, !.mb = mbIndex, !.filter = filter,
                           !.filterNull = filterNull],
             CAN_ConfigRxFilter_Validate(instance, mbIndex, filterNull), "run", NoLoc, << >>)
    /\ UNCHANGED << drv, dut, timing, txMsg, srv, regs, outMsg, isr >>

CAN_ConfigTxMailbox_Validate(instance, mbIndex) ==
    IF instance >= CAN_INSTANCE_COUNT THEN STATUS_INVALID_PARAM
    ELSE IF ~s_canInitialized[instance] THEN STATUS_NOT_INITIALIZED
    ELSE IF mbIndex < CAN_TX_MB_START \/ mbIndex >= CAN_TX_MB_START + CAN_TX_MB_COUNT
         THEN STATUS_INVALID_PARAM
    ELSE "ok"

\* a CAN_ConfigTxMailbox that leaves the mailbox's interrupt as it is
CAN_ConfigTxMailbox_Program_NoEnable(mbIndex) ==
    LET mbOffset == mbIndex * MSG_BUF_SIZE IN
    << Wr("RAMn", mbOffset + 0, MakeCs(CAN_CS_CODE_TX_INACTIVE, 0, 0, 0, 0)) >>

CAN_ConfigTxMailbox_Program(mbIndex) ==
    LET mbOffset == mbIndex * MSG_BUF_SIZE IN
    << Wr("RAMn", mbOffset + 0, MakeCs(CAN_CS_CODE_TX_INACTIVE, 0, 0, 0, 0)),
       SetBits("IMASK1", {mbIndex}) >>

CAN_ConfigTxMailbox(instance, mbIndex) ==
    /\ Begin("CAN_ConfigTxMailbox", [NoArg EXCEPT !.inst = instance, !.mb = mbIndex],
             CAN_ConfigTxMailbox_Validate(instance, mbIndex), "run", NoLoc, << >>)
    /\ UNCHANGED << drv, dut, timing, txMsg, srv, regs, outMsg, isr >>

(***************************************************************************)
(* CAN_AbortTransmission, CAN_IsMbBusy, CAN_Deinit                         *)
(***************************************************************************)
CAN_AbortTransmission_Validate(instance, mbIndex) ==
    IF instance >= CAN_INSTANCE_COUNT \/ mbIndex >= CAN_MB_COUNT THEN STATUS_INVALID_PARAM
    ELSE "ok"

CAN_AbortTransmission_Program(mbIndex) ==
    LET mbOffset == mbIndex * MSG_BUF_SIZE IN
    << Wr("RAMn", mbOffset + 0, MakeCs(CAN_CS_CODE_TX_ABORT, 0, 0, 0, 0)) >>

CAN_AbortTransmission(instance, mbIndex) ==
    /\ Begin("CAN_AbortTransmission", [NoArg EXCEPT !.inst = instance, !.mb = mbIndex],
             CAN_AbortTransmission_Validate(instance, mbIndex), "run", NoLoc, << >>)
    /\ UNCHANGED << drv, dut, timing, txMsg, srv, regs, outMsg, isr >>

\* isBusyNull: the isBusy output pointer is NULL
CAN_IsMbBusy_Validate(instance, mbIndex, isBusyNull) ==
    IF instance >= CAN_INSTANCE_COUNT \/ mbIndex >= CAN_MB_COUNT \/ isBusyNull
    THEN STATUS_INVALID_PARAM
    ELSE "ok"

CAN_IsMbBusy_Program(mbIndex) ==
    LET mbOffset == mbIndex * MSG_BUF_SIZE IN
    << Rd("RAMn", mbOffset + 0, "cs") >>

\* *isBusy = (code != CAN_CS_CODE_TX_INACTIVE && code != CAN_CS_CODE_RX_INACTIVE)
CAN_IsMbBusy_Result(cs) ==
    CsCode(cs) # CAN_CS_CODE_TX_INACTIVE /\ CsCode(cs) # CAN_CS_CODE_RX_INACTIVE

CAN_IsMbBusy(instance, mbIndex, isBusyNull) ==
    /\ Begin("CAN_IsMbBusy",
             [NoArg EXCEPT !.inst = instance, !.mb = mbIndex, !.isBusyNull = isBusyNull],
             CAN_IsMbBusy_Validate(instance, mbIndex, isBusyNull), "run", NoLoc, << >>)
    /\ UNCHANGED << drv, dut, timing, txMsg, srv, regs, outMsg, isr >>

CAN_Deinit_Validate(instance) ==
    IF instance >= CAN_INSTANCE_COUNT THEN STATUS_INVALID_PARAM ELSE "ok"

CAN_Deinit_Program == << SetBits("MCR", {"MDIS"}) >>

CAN_Deinit(instance) ==
    /\ Begin("CAN_Deinit", [NoArg EXCEPT !.inst = instance],
             CAN_Deinit_Validate(instance), "run", NoLoc, << >>)
    /\ UNCHANGED << drv, dut, timing, txMsg, srv, regs, outMsg, isr >>

(***************************************************************************)
(* CAN_RegisterCallback, CAN_UnregisterCallback                            *)
(***************************************************************************)
NO_INSTANCE == 255

\* index is CAN_GetInstanceIndex(instance): 0, 1, 2, or 0xFF for any other pointer
CAN_RegisterCallback(index, callback) ==
    /\ Begin("CAN_RegisterCallback", [NoArg EXCEPT !.inst = index, !.cb = callback],
             IF index = NO_INSTANCE THEN STATUS_INVALID_PARAM ELSE STATUS_SUCCESS,
             "ret", NoLoc, << >>)
    /\ s_canCallbacks' = IF index = NO_INSTANCE THEN s_canCallbacks
                         ELSE [s_canCallbacks EXCEPT ![index] = callback]
    /\ UNCHANGED << s_canInitialized, dut, timing, txMsg, srv, regs, outMsg, isr >>

CAN_UnregisterCallback(index) ==
    /\ Begin("CAN_UnregisterCallback", [NoArg EXCEPT !.inst = index],
             IF index = NO_INSTANCE THEN STATUS_INVALID_PARAM ELSE STATUS_SUCCESS,
             "ret", NoLoc, << >>)
    /\ s_canCallbacks' = IF index = NO_INSTANCE THEN s_canCallbacks
                         ELSE [s_canCallbacks EXCEPT ![index] = FALSE]
    /\ UNCHANGED << s_canInitialized, dut, timing, txMsg, srv, regs, outMsg, isr >>

(***************************************************************************)
(* CAN_SendBlocking, CAN_ReceiveBlocking                                   *)
(***************************************************************************)
\* a polling bound that does not depend on timeoutMs and is never reached
TimeoutLimit_Never(timeoutMs) == Pow2(30)

\* timeoutMs * 1000U, for timeoutMs below the 32-bit wrap
TimeoutLimit(timeoutMs) == timeoutMs * POLLS_PER_MS

\* 1UL << mbIndex: one bit for mbIndex < 32; beyond that the shift is undefined
\* and the build yields either no bit or the bit mbIndex mod 32
ShiftMasks(mbIndex) ==
    IF mbIndex < 32 THEN {{mbIndex}} ELSE {{}, {mbIndex % 32}}

\* The log of a polling loop after one more evaluation of its condition: the
\* loop body reads IFLAG1 when it is entered, and the log keeps the repeated
\* reads of the loop as one entry.
LogPoll(lg, entered) ==
    IF entered /\ (lg = << >> \/ lg[Len(lg)] # Entry(Rd("IFLAG1", 0, "")))
    THEN Append(lg, Entry(Rd("IFLAG1", 0, ""))) ELSE lg

CAN_SendBlocking(instance, mbIndex, message, timeoutMs) ==
    /\ Begin("CAN_SendBlocking",
             [NoArg EXCEPT !.inst = instance, !.mb = mbIndex, !.msg = message,
                           !.tmo = timeoutMs],
             CAN_Send_Validate(instance, mbIndex, message), "run", NoLoc, << >>)
    /\ UNCHANGED << drv, dut, timing, txMsg, srv, regs, outMsg, isr >>

\* one evaluation of the while condition and, inside the loop, of the flag test;
\* cap bounds the iterations the model follows
CAN_SendBlocking_Poll(cap) ==
    /\ op = "CAN_SendBlocking" /\ pc = "poll" /\ isr.st = "idle"
    /\ LET r == regs IN
       IF loc.timeoutCount < TimeoutLimit(arg.tmo)
       THEN IF arg.mb \in r.IFLAG1
            THEN /\ pc' = "clear"
                 /\ UNCHANGED << loc, ret >>
            ELSE /\ loc.timeoutCount < cap
                 /\ loc' = [loc EXCEPT !.timeoutCount = @ + 1]
                 /\ UNCHANGED << pc, ret >>
       ELSE /\ pc' = "ret"
            /\ ret' = STATUS_TIMEOUT
            /\ UNCHANGED loc
    /\ log' = LogPoll(log, loc.timeoutCount < TimeoutLimit(arg.tmo))
    /\ UNCHANGED << drv, dut, timing, txMsg, srv, regs, op, arg, outMsg, isr >>

\* base->IFLAG1 = mbMask; return STATUS_SUCCESS;
CAN_SendBlocking_Clear ==
    /\ op = "CAN_SendBlocking" /\ pc = "clear" /\ isr.st = "idle"
    /\ regs' = Apply(regs, W1c("IFLAG1", {arg.mb}))
    /\ log' = Append(log, Entry(W1c("IFLAG1", {arg.mb})))
    /\ pc' = "ret"
    /\ ret' = STATUS_SUCCESS
    /\ UNCHANGED << drv, dut, timing, txMsg, srv, op, arg, loc, outMsg, isr >>

\* CAN_ReceiveBlocking validates the instance, the pointer and the initialized
\* flag, not the mailbox index
CAN_ReceiveBlocking_Validate(instance, message) ==
    IF instance >= CAN_INSTANCE_COUNT \/ message.null THEN STATUS_INVALID_PARAM
    ELSE IF ~s_canInitialized[instance] THEN STATUS_NOT_INITIALIZED
    ELSE "ok"

CAN_ReceiveBlocking(instance, mbIndex, message, timeoutMs) ==
    /\ \E mask \in ShiftMasks(mbIndex) :
          Begin("CAN_ReceiveBlocking",
                [NoArg EXCEPT !.inst = instance, !.mb = mbIndex, !.msg = message,
                              !.tmo = timeoutMs],
                CAN_ReceiveBlocking_Validate(instance, message), "poll",
                [NoLoc EXCEPT !.mbMask = mask], << >>)
    /\ UNCHANGED << drv, dut, timing, txMsg, srv, regs, outMsg, isr >>

CAN_ReceiveBlocking_Poll(cap) ==
    /\ op = "CAN_ReceiveBlocking" /\ pc = "poll" /\ isr.st = "idle"
    /\ LET r == regs IN
       IF loc.timeoutCount < TimeoutLimit(arg.tmo)
       THEN IF r.IFLAG1 \cap loc.mbMask # {}
            THEN /\ pc' = "receive"
                 /\ UNCHANGED << loc, ret >>
            ELSE /\ loc.timeoutCount < cap
                 /\ loc' = [loc EXCEPT !.timeoutCount = @ + 1]
                 /\ UNCHANGED << pc, ret >>
       ELSE /\ pc' = "ret"
            /\ ret' = STATUS_TIMEOUT
            /\ UNCHANGED loc
    /\ log' = LogPoll(log, loc.timeoutCount < TimeoutLimit(arg.tmo))
    /\ UNCHANGED << drv, dut, timing, txMsg, srv, regs, op, arg, outMsg, isr >>

\* return CAN_Receive(instance, mbIndex, message): its validation and flag test
CAN_ReceiveBlocking_Receive ==
    /\ op = "CAN_ReceiveBlocking" /\ pc = "receive" /\ isr.st = "idle"
    /\ LET status == CAN_Receive_Entry(arg.inst, arg.mb, arg.msg) IN
       IF status # "ok"
       THEN pc' = "ret" /\ ret' = status
       ELSE pc' = "run" /\ ret' = ret
    /\ log' = log \o CAN_Receive_EntryLog(arg.inst, arg.mb, arg.msg)
    /\ UNCHANGED << drv, dut, timing, txMsg, srv, regs, op, arg, loc, outMsg, isr >>

(***************************************************************************)
(* The foreground performs the next register access of the running call    *)
(***************************************************************************)
Program(name, a) ==
    CASE name \in {"CAN_Send", "CAN_SendBlocking"} -> CAN_Send_Program(a.mb, a.msg.v)
      [] name \in {"CAN_Receive", "CAN_ReceiveBlocking"} -> CAN_Receive_Program(a.mb)
      [] name = "CAN_ConfigRxFilter" -> CAN_ConfigRxFilter_Program(a.mb, a.filter)
      [] name = "CAN_ConfigTxMailbox" -> CAN_ConfigTxMailbox_Program(a.mb)
      [] name = "CAN_AbortTransmission" -> CAN_AbortTransmission_Program(a.mb)
      [] name = "CAN_IsMbBusy" -> CAN_IsMbBusy_Program(a.mb)
      [] name = "CAN_Deinit" -> CAN_Deinit_Program
      [] OTHER -> << >>

FgAccess ==
    /\ pc = "run" /\ isr.st = "idle"
    /\ LET P == Program(op, arg)
           acc == P[loc.i]
           r == regs
           l1 == IF acc.a = "R"
                 THEN [loc EXCEPT ![acc.into] = ReadValue(r, acc), !.i = @ + 1]
                 ELSE [loc EXCEPT !.i = @ + 1]
           last == loc.i = Len(P)
       IN /\ regs' = Apply(r, acc)
          /\ log' = Append(log, Entry(acc))
          /\ pc' = IF ~last THEN "run"
                   ELSE IF op = "CAN_SendBlocking" THEN "poll" ELSE "ret"
          /\ ret' = IF last /\ op # "CAN_SendBlocking" THEN STATUS_SUCCESS ELSE ret
          /\ loc' = IF last /\ op = "CAN_IsMbBusy"
                    THEN [l1 EXCEPT !.isBusy = CAN_IsMbBusy_Result(l1.cs)]
                    ELSE l1
          /\ outMsg' = IF last /\ op \in {"CAN_Receive", "CAN_ReceiveBlocking"}
                       THEN CAN_Receive_Message(l1) ELSE outMsg
          /\ s_canInitialized' = IF last /\ op = "CAN_Deinit"
                                 THEN [s_canInitialized EXCEPT ![arg.inst] = FALSE]
                                 ELSE s_canInitialized
    /\ UNCHANGED << s_canCallbacks, dut, timing, txMsg, srv, op, arg, isr >>

\* the call returns to its caller
Return ==
    /\ pc = "ret" /\ isr.st = "idle"
    /\ op' = "idle" /\ arg' = NoArg /\ pc' = "idle" /\ loc' = NoLoc /\ ret' = ""
    /\ log' = << >> /\ outMsg' = StaleMsg /\ timing' = StaleTiming
    /\ UNCHANGED << drv, dut, regs, isr, txMsg, srv >>

(***************************************************************************)
(* CAN_CalculateTiming, CAN_Init                                           *)
(***************************************************************************)
CAN_CLK_SRC_SOSCDIV2 == 0
CAN_CLK_SRC_BUSCLOCK == 1

CAN_GetClockFrequency(clockSource) ==
    CASE clockSource = CAN_CLK_SRC_SOSCDIV2 -> 4000000
      [] clockSource = CAN_CLK_SRC_BUSCLOCK -> 40000000
      [] OTHER -> CAN_DEFAULT_CLK_FREQ

\* What a 32-bit unsigned division by zero yields is undefined: the core
\* returns 0, or traps (-1) when divide-by-zero trapping is enabled, and the
\* compiler may assume it never happens and produce any quotient.
UDIV_TRAP == -1
UdivByZero == {UDIV_TRAP, 0, 1, 300}

\* canClockHz / (baudRate * numTq) in 32-bit unsigned arithmetic, for operands
\* below 2^31.  numTq is 16 or 8, so the product modulo 2^32 is
\* (baudRate mod (2^32 / numTq)) * numTq, and dividing by it is dividing by
\* numTq and then by baudRate mod (2^32 / numTq).  undef is the outcome of a
\* division by zero.
Quotient(canClockHz, baudRate, numTq, undef) ==
    LET d == baudRate % ((Pow2(30) \div numTq) * 4) IN
    IF d = 0 THEN undef ELSE (canClockHz \div numTq) \div d

\* baudRate * numTq is 0 modulo 2^32
ZeroDivisor(baudRate, numTq) == baudRate % ((Pow2(30) \div numTq) * 4) = 0

\* preDiv = quotient - 1U exceeds 255: the quotient is above 256, or it is 0
\* and the unsigned subtraction wraps to 0xFFFFFFFF
PreDivTooBig(quotient) == quotient = 0 \/ quotient - 1 > 255

\* the segments CAN_CalculateTiming stores on success
TimingPropSeg == 6
TimingPhaseSeg1 == 3
TimingPhaseSeg2 == 3
TimingRJumpWidth == 3

\* the structure CAN_CalculateTiming stores through its timing pointer:
\* timing->preDiv = (uint8_t)preDiv is followed by timing->preDiv = 0U
CAN_CalculateTiming_Store(preDiv) ==
    [propSeg |-> TimingPropSeg, phaseSeg1 |-> TimingPhaseSeg1,
     phaseSeg2 |-> TimingPhaseSeg2, rJumpWidth |-> TimingRJumpWidth, preDiv |-> 0]

\* The outcome of CAN_CalculateTiming: its status ("fault" when a division
\* traps), the locals numTq and preDiv when it returns, whether it divided by
\* zero, and whether and what it stored through the timing pointer.
\* timingNull: the timing pointer is NULL.
CAN_CalculateTiming(canClockHz, baudRate, timingNull, undef) ==
    LET q16 == Quotient(canClockHz, baudRate, 16, undef)
        q8 == Quotient(canClockHz, baudRate, 8, undef)
        z16 == ZeroDivisor(baudRate, 16)
        z8 == ZeroDivisor(baudRate, 8)
        Out(status, numTq, preDiv, zero, written) ==
            [status |-> status, numTq |-> numTq, preDiv |-> preDiv, divByZero |-> zero,
             written |-> written, timing |-> CAN_CalculateTiming_Store(preDiv)]
    IN IF timingNull \/ baudRate = 0 \/ canClockHz = 0
       THEN Out(STATUS_INVALID_PARAM, 0, 0, FALSE, FALSE)
       ELSE IF q16 = UDIV_TRAP THEN Out("fault", 16, 0, TRUE, FALSE)
       ELSE IF ~PreDivTooBig(q16) THEN Out(STATUS_SUCCESS, 16, q16 - 1, z16, TRUE)
       ELSE IF q8 = UDIV_TRAP THEN Out("fault", 8, 0, TRUE, FALSE)
       ELSE IF ~PreDivTooBig(q8) THEN Out(STATUS_SUCCESS, 8, q8 - 1, z16 \/ z8, TRUE)
       ELSE Out(STATUS_INVALID_PARAM, 8, 0, z16 \/ z8, FALSE)

\* a call of CAN_CalculateTiming by the application, from entry to return
CalculateTiming(canClockHz, baudRate, timingNull) ==
    /\ Idle
    /\ \E undef \in UdivByZero :
          LET t == CAN_CalculateTiming(canClockHz, baudRate, timingNull, undef) IN
          /\ pc' = IF t.status = "fault" THEN "fault" ELSE "ret"
          /\ ret' = IF t.status = "fault" THEN "" ELSE t.status
          /\ loc' = [NoLoc EXCEPT !.numTq = t.numTq, !.preDiv = t.preDiv,
                                  !.divByZero = t.divByZero]
          /\ timing' = IF t.written THEN t.timing ELSE timing
    /\ op' = "CAN_CalculateTiming"
    /\ arg' = [NoArg EXCEPT !.canClockHz = canClockHz, !.baudRate = baudRate,
                            !.timingNull = timingNull]
    /\ log' = << >>
    /\ UNCHANGED << drv, dut, regs, outMsg, isr, txMsg, srv >>

CAN_Init_Validate(config, configNull) ==
    IF configNull THEN STATUS_INVALID_PARAM
    ELSE IF config.instance >= CAN_INSTANCE_COUNT THEN STATUS_INVALID_PARAM
    ELSE "ok"

CAN_EnableClock_Program(clockSource) ==
    << SetBits("MCR", {"MDIS"}),
       IF clockSource = CAN_CLK_SRC_SOSCDIV2 THEN ClrBits("CTRL1", "clksrc")
       ELSE SetBits("CTRL1", "clksrc"),
       ClrBits("MCR", {"MDIS"}) >>

CAN_EnterFreezeMode_Request == << SetBits("MCR", {"FRZ", "HALT"}) >>
CAN_SoftReset_Request == << SetBits("MCR", {"SOFTRST"}) >>
CAN_ExitFreezeMode_Request == << ClrBits("MCR", {"FRZ", "HALT"}) >>

CAN_InitMessageBuffers_Program ==
    << Fill("RAMn", RAM_WORDS, ZeroWord),
       Fill("RXIMR", RXIMR_INIT_COUNT, AllOnes),
       W1c("IFLAG1", Mailboxes) >>

\* a configuration that leaves freeze mode before it writes anything
CAN_Init_Configure_ExitFirst(config, preDiv) ==
    CAN_ExitFreezeMode_Request
    \o << Wr("CTRL1", 0, [presdiv |-> preDiv, rjw |-> TimingRJumpWidth,
                          pseg1 |-> TimingPhaseSeg1, pseg2 |-> TimingPhaseSeg2,
                          propseg |-> TimingPropSeg, smp |-> 3, lpb |-> 0, lom |-> 0,
                          clksrc |-> 0]) >>
    \o (IF config.mode = CAN_MODE_LOOPBACK THEN << SetBits("CTRL1", "lpb") >>
        ELSE IF config.mode = CAN_MODE_LISTEN_ONLY THEN << SetBits("CTRL1", "lom") >>
        ELSE << >>)
    \o (IF ~config.enableSelfReception THEN << SetBits("MCR", {"SRXDIS"}) >> ELSE << >>)
    \o (IF config.useRxFifo THEN << SetBits("MCR", {"RFEN"}) >>
        ELSE << ClrBits("MCR", {"RFEN"}) >>)
    \o << Fld("MCR", CAN_MB_COUNT - 1) >>
    \o CAN_InitMessageBuffers_Program
    \o << Wr("RXMGMASK", 0, Word(536870911)), Wr("ECR", 0, 0) >>

\* CAN_Init from "Configure CTRL1 register" to "Clear error counters"
CAN_Init_Configure(config, preDiv) ==
    << Wr("CTRL1", 0, [presdiv |-> preDiv, rjw |-> TimingRJumpWidth,
                       pseg1 |-> TimingPhaseSeg1, pseg2 |-> TimingPhaseSeg2,
                       propseg |-> TimingPropSeg, smp |-> 3, lpb |-> 0, lom |-> 0,
                       clksrc |-> 0]) >>
    \o (IF config.mode = CAN_MODE_LOOPBACK THEN << SetBits("CTRL1", "lpb") >>
        ELSE IF config.mode = CAN_MODE_LISTEN_ONLY THEN << SetBits("CTRL1", "lom") >>
        ELSE << >>)
    \o (IF ~config.enableSelfReception THEN << SetBits("MCR", {"SRXDIS"}) >> ELSE << >>)
    \o (IF config.useRxFifo THEN << SetBits("MCR", {"RFEN"}) >>
        ELSE << ClrBits("MCR", {"RFEN"}) >>)
    \o << Fld("MCR", CAN_MB_COUNT - 1) >>
    \o CAN_InitMessageBuffers_Program
    \o << Wr("RXMGMASK", 0, Word(536870911)), Wr("ECR", 0, 0) >>

\* validation, CAN_EnableClock, and the freeze request of CAN_EnterFreezeMode
CAN_Init(config, configNull) ==
    LET P == CAN_EnableClock_Program(config.clockSource) \o CAN_EnterFreezeMode_Request
        status == CAN_Init_Validate(config, configNull)
    IN /\ Begin("CAN_Init",
                [NoArg EXCEPT !.inst = config.instance, !.cfg = config,
                              !.cfgNull = configNull],
                status, "poll",
                [NoLoc EXCEPT !.phase = "enter_freeze", !.timeout = CAN_FREEZE_TIMEOUT],
                IF status = "ok" THEN Entries(P) ELSE << >>)
       /\ regs' = IF status = "ok"
                  THEN ApplyAll(regs, P)
                  ELSE regs
       /\ UNCHANGED << drv, dut, timing, txMsg, srv, outMsg, isr >>

\* the condition each busy-wait of CAN_Init loops on
Waiting(r, phase) ==
    CASE phase = "enter_freeze" -> "FRZACK" \notin r.MCR
      [] phase = "soft_reset" -> "SOFTRST" \in r.MCR
      [] phase = "exit_frzack" -> "FRZACK" \in r.MCR
      [] phase = "exit_notrdy" -> "NOTRDY" \in r.MCR

\* a busy-wait with no iteration limit
PollAgain_NoLimit(timeout, waiting) == waiting

\* while ((timeout > 0U) && waiting) timeout--;
PollAgain(timeout, waiting) == timeout > 0 /\ waiting

\* if (timeout == 0U) return STATUS_TIMEOUT; ... return STATUS_SUCCESS;
TransitionStatus(timeout) == IF timeout = 0 THEN STATUS_TIMEOUT ELSE STATUS_SUCCESS

\* One evaluation of the loop condition of the current busy-wait.  When the
\* loop is left, the transition's status is STATUS_TIMEOUT if timeout == 0,
\* which fails the call with STATUS_ERROR; otherwise CAN_Init goes on to its
\* next busy-wait, or returns.
CAN_Init_Poll(cap) ==
    /\ op = "CAN_Init" /\ pc = "poll" /\ isr.st = "idle"
    /\ \E undef \in IF loc.phase = "soft_reset" THEN UdivByZero ELSE {0} :
       LET r == regs
           t == CAN_CalculateTiming(CAN_GetClockFrequency(arg.cfg.clockSource),
                                    arg.cfg.baudRate, FALSE, undef)
           P == CASE loc.phase = "enter_freeze" -> CAN_SoftReset_Request
                  [] loc.phase = "soft_reset" ->
                        CAN_Init_Configure(arg.cfg, t.timing.preDiv)
                        \o CAN_ExitFreezeMode_Request
                  [] OTHER -> << >>
           next == CASE loc.phase = "enter_freeze" -> "soft_reset"
                     [] loc.phase = "soft_reset" -> "exit_frzack"
                     [] OTHER -> "exit_notrdy"
       IN IF PollAgain(loc.timeout, Waiting(r, loc.phase))
          THEN /\ CAN_FREEZE_TIMEOUT - loc.timeout < cap
               /\ loc' = [loc EXCEPT !.timeout = @ - 1]
               /\ UNCHANGED << s_canInitialized, regs, pc, ret, log >>
          ELSE IF TransitionStatus(loc.timeout) # STATUS_SUCCESS
          THEN /\ pc' = "ret" /\ ret' = STATUS_ERROR
               /\ loc' = [loc EXCEPT !.status = TransitionStatus(loc.timeout)]
               /\ UNCHANGED << s_canInitialized, regs, log >>
          ELSE IF loc.phase = "soft_reset" /\ t.status = "fault"
          THEN /\ pc' = "fault"
               /\ UNCHANGED << s_canInitialized, regs, ret, loc, log >>
          ELSE IF loc.phase = "soft_reset" /\ t.status # STATUS_SUCCESS
          THEN /\ pc' = "ret" /\ ret' = STATUS_INVALID_PARAM
               /\ loc' = [loc EXCEPT !.status = t.status]
               /\ UNCHANGED << s_canInitialized, regs, log >>
          ELSE IF loc.phase = "exit_notrdy"
          THEN /\ s_canInitialized' = [s_canInitialized EXCEPT ![arg.inst] = TRUE]
               /\ pc' = "ret" /\ ret' = STATUS_SUCCESS
               /\ loc' = [loc EXCEPT !.status = STATUS_SUCCESS]
               /\ UNCHANGED << regs, log >>
          ELSE /\ regs' = ApplyAll(r, P)
               /\ log' = log \o Entries(P)
               /\ loc' = [loc EXCEPT !.phase = next, !.timeout = CAN_FREEZE_TIMEOUT,
                                     !.status = STATUS_SUCCESS]
               /\ UNCHANGED << s_canInitialized, pc, ret >>
    /\ UNCHANGED << s_canCallbacks, dut, timing, txMsg, srv, op, arg, outMsg, isr >>

(***************************************************************************)
(* CAN_IRQHandler                                                          *)
(***************************************************************************)
\* a scan loop without its break: every pending mailbox, in increasing order
RECURSIVE IRQ_Scan_NoBreak(_)
IRQ_Scan_NoBreak(iflag1) ==
    IF iflag1 = {} THEN << >>
    ELSE LET m == CHOOSE m \in iflag1 : \A n \in iflag1 : m <= n
         IN << m >> \o IRQ_Scan_NoBreak(iflag1 \ {m})

\* the mailboxes the scan loop services: the loop runs mbIdx upwards from 0 and
\* breaks after the first one whose bit is set in iflag1
IRQ_Scan(iflag1) ==
    IF iflag1 = {} THEN << >>
    ELSE << CHOOSE m \in iflag1 : \A n \in iflag1 : m <= n >>

\* rxMessage.dataLength = (dlc > 8U) ? 8U : dlc
IRQ_DataLength(cs) == IF CsDlc(cs) > 8 THEN 8 ELSE CsDlc(cs)

\* CAN_CopyDataFromMb into the zero-initialised rxMessage.data: bytes 0..length-1
IRQ_Data(d0, d1, length) ==
    [n \in 1 .. 8 |-> IF n <= length THEN UnpackData(d0, d1)[n] ELSE 0]

IRQ_RxMessage(r, mbIdx) ==
    LET cs == MbCs(r, mbIdx) IN
    [id |-> DecodeId(MbId(r, mbIdx), CsIde(cs)),
     idType |-> IF CsIde(cs) # 0 THEN CAN_ID_EXT ELSE CAN_ID_STD,
     frameType |-> IF CsRtr(cs) # 0 THEN CAN_FRAME_REMOTE ELSE CAN_FRAME_DATA,
     dataLength |-> IRQ_DataLength(cs),
     data |-> IRQ_Data(MbData0(r, mbIdx), MbData1(r, mbIdx), IRQ_DataLength(cs))]

\* a loop body that reactivates a full receive mailbox before it clears the flag
IRQ_Program_ReactivateFirst(r, mbIdx) ==
    LET mbOffset == CAN_GetMbOffset(mbIdx)
        cs == MbCs(r, mbIdx)
        code == CsCode(cs)
    IN IF code = CAN_CS_CODE_TX_INACTIVE
       THEN << Rd("RAMn", mbOffset, "cs"), W1c("IFLAG1", {mbIdx}) >>
       ELSE IF code = CAN_CS_CODE_RX_FULL
       THEN << Rd("RAMn", mbOffset, "cs"),
               Rd("RAMn", mbOffset + 1, "id"),
               Rd("RAMn", mbOffset + 2, "data0"),
               Rd("RAMn", mbOffset + 3, "data1"),
               Wr("RAMn", mbOffset,
                  MakeCs(CAN_CS_CODE_RX_EMPTY, 0, CsIde(cs), CsRtr(cs), 0)),
               W1c("IFLAG1", {mbIdx}) >>
       ELSE << Rd("RAMn", mbOffset, "cs") >>

\* a loop body that rewrites the CS word of a transmit mailbox it services
IRQ_Program_RewriteTx(r, mbIdx) ==
    LET mbOffset == CAN_GetMbOffset(mbIdx)
        cs == MbCs(r, mbIdx)
        code == CsCode(cs)
    IN IF code = CAN_CS_CODE_TX_INACTIVE
       THEN << Rd("RAMn", mbOffset, "cs"), W1c("IFLAG1", {mbIdx}),
               Wr("RAMn", mbOffset, MakeCs(CAN_CS_CODE_TX_INACTIVE, 0, 0, 0, 0)) >>
       ELSE IF code = CAN_CS_CODE_RX_FULL
       THEN << Rd("RAMn", mbOffset, "cs"),
               Rd("RAMn", mbOffset + 1, "id"),
               Rd("RAMn", mbOffset + 2, "data0"),
               Rd("RAMn", mbOffset + 3, "data1"),
               W1c("IFLAG1", {mbIdx}),
               Wr("RAMn", mbOffset,
                  MakeCs(CAN_CS_CODE_RX_EMPTY, 0, CsIde(cs), CsRtr(cs), 0)) >>
       ELSE << Rd("RAMn", mbOffset, "cs") >>

\* the register accesses of the loop body for mailbox mbIdx
IRQ_Program(r, mbIdx) ==
    LET mbOffset == CAN_GetMbOffset(mbIdx)
        cs == MbCs(r, mbIdx)
        code == CsCode(cs)
    IN IF code = CAN_CS_CODE_TX_INACTIVE
       THEN << Rd("RAMn", mbOffset, "cs"), W1c("IFLAG1", {mbIdx}) >>
       ELSE IF code = CAN_CS_CODE_RX_FULL
       THEN << Rd("RAMn", mbOffset, "cs"),
               Rd("RAMn", mbOffset + 1, "id"),
               Rd("RAMn", mbOffset + 2, "data0"),
               Rd("RAMn", mbOffset + 3, "data1"),
               W1c("IFLAG1", {mbIdx}),
               Wr("RAMn", mbOffset,
                  MakeCs(CAN_CS_CODE_RX_EMPTY, 0, CsIde(cs), CsRtr(cs), 0)) >>
       ELSE << Rd("RAMn", mbOffset, "cs") >>

\* the callback invocations of the loop body for mailbox mbIdx
IRQ_Events(r, mbIdx) ==
    LET code == CsCode(MbCs(r, mbIdx)) IN
    IF code = CAN_CS_CODE_TX_INACTIVE
    THEN << [event |-> CAN_EVENT_TX_COMPLETE, mbIndex |-> mbIdx, message |-> Null] >>
    ELSE IF code = CAN_CS_CODE_RX_FULL
    THEN << [event |-> CAN_EVENT_RX_COMPLETE, mbIndex |-> mbIdx,
             message |-> Ptr(IRQ_RxMessage(r, mbIdx))] >>
    ELSE << >>

\* the loop body run for each mailbox of scan in turn
RECURSIVE IRQ_Run(_, _, _, _)
IRQ_Run(r, scan, events, lg) ==
    IF scan = << >> THEN [r |-> r, events |-> events, log |-> lg]
    ELSE LET P == IRQ_Program(r, Head(scan)) IN
         IRQ_Run(ApplyAll(r, P), Tail(scan), events \o IRQ_Events(r, Head(scan)),
                 lg \o Entries(P))

\* index is CAN_GetInstanceIndex(instance).  The handler runs to completion
\* between two register accesses of the foreground.
CAN_IRQHandler(index) ==
    /\ isr.st = "idle"
    /\ index \in Instances => index = dut
    /\ IF index = NO_INSTANCE \/ ~s_canCallbacks[index]
       THEN /\ isr' = [NoIsr EXCEPT !.st = "ret", !.inst = index]
            /\ regs' = regs
       ELSE LET iflag1 == regs.IFLAG1
                scan == IRQ_Scan(iflag1)
                out == IRQ_Run(regs, scan, << >>, << Entry(Rd("IFLAG1", 0, "")) >>)
            IN /\ isr' = [st |-> "ret", inst |-> index, iflag1 |-> iflag1,
                          mb |-> IF scan = << >> THEN -1 ELSE Head(scan),
                          events |-> out.events, log |-> out.log]
               /\ regs' = out.r
    /\ UNCHANGED << drv, dut, timing, txMsg, srv, fg >>

\* the handler returns to the interrupted code
IrqReturn ==
    /\ isr.st = "ret"
    /\ isr' = NoIsr
    /\ UNCHANGED << drv, dut, timing, txMsg, srv, regs, fg >>

(***************************************************************************)
(* can_srv.c: the service layer                                            *)
(***************************************************************************)
CAN_DEFAULT_INSTANCE == 0
CAN_TX_MB == 8
CAN_RX_MB_PRIMARY == 16

NoSrvMessage == [id |-> 0, data |-> ZeroData, dlc |-> 0, isExtended |-> FALSE,
                 isRemote |-> FALSE]

\* can_srv_message_t srvMessage = {0}, filled from the driver message if there is one
CAN_SRV_Convert(message) ==
    IF message.null THEN NoSrvMessage
    ELSE [id |-> message.v.id, data |-> message.v.data, dlc |-> message.v.dataLength,
          isExtended |-> message.v.idType = CAN_ID_EXT,
          isRemote |-> message.v.frameType = CAN_FRAME_REMOTE]

\* a bridge that hands the message to the user whatever the event
CAN_SRV_Forward_AlwaysMessage(user_callback, event, message) ==
    IF ~user_callback THEN << >>
    ELSE << [instance |-> CAN_DEFAULT_INSTANCE, event |-> CAN_SRV_EVENT_TX_COMPLETE,
             null |-> FALSE, message |-> CAN_SRV_Convert(message)] >>

\* the user callback invocations CAN_SRV_DriverCallback makes for one driver event
CAN_SRV_Forward(user_callback, event, message) ==
    LET call(srvEvent) ==
            << [instance |-> CAN_DEFAULT_INSTANCE, event |-> srvEvent,
                null |-> event # CAN_EVENT_RX_COMPLETE,
                message |-> IF event = CAN_EVENT_RX_COMPLETE
                            THEN CAN_SRV_Convert(message) ELSE NoSrvMessage] >>
    IN IF ~user_callback THEN << >>
       ELSE CASE event = CAN_EVENT_TX_COMPLETE -> call(CAN_SRV_EVENT_TX_COMPLETE)
              [] event = CAN_EVENT_RX_COMPLETE -> call(CAN_SRV_EVENT_RX_COMPLETE)
              [] event = CAN_EVENT_ERROR -> call(CAN_SRV_EVENT_ERROR)
              [] event = CAN_EVENT_BUS_OFF -> call(CAN_SRV_EVENT_BUS_OFF)
              [] OTHER -> << >>

\* the driver invokes its registered callback, the bridge, with an event and
\* the message of eventData
CAN_SRV_DriverCallback(event, message) ==
    /\ srv.st = "idle"
    /\ s_canCallbacks[CAN_DEFAULT_INSTANCE]
    /\ srv' = [srv EXCEPT !.st = "bridge", !.event = event, !.message = message,
                          !.calls = CAN_SRV_Forward(srv.s_user_callback, event, message)]
    /\ UNCHANGED << drv, dut, timing, txMsg, regs, fg, isr >>

\* the bridge, or a service call, returns
CAN_SRV_Return ==
    /\ srv.st # "idle"
    /\ srv' = [NoSrv EXCEPT !.s_can_initialized = srv.s_can_initialized,
                            !.s_user_callback = srv.s_user_callback]
    /\ UNCHANGED << drv, dut, timing, txMsg, regs, fg, isr >>

\* the end of CAN_SRV_Init: CAN_Init, CAN_ConfigRxFilter, CAN_ConfigTxMailbox and
\* CAN_RegisterCallback have returned STATUS_SUCCESS, in that order
CAN_SRV_Init_Done ==
    /\ Idle /\ srv.st = "idle"
    /\ ~srv.s_can_initialized
    /\ s_canInitialized[CAN_DEFAULT_INSTANCE]
    /\ {CAN_RX_MB_PRIMARY, CAN_TX_MB} \subseteq regs.IMASK1
    /\ s_canCallbacks[CAN_DEFAULT_INSTANCE]
    /\ srv' = [srv EXCEPT !.s_can_initialized = TRUE, !.st = "ret",
                          !.ret = CAN_SRV_SUCCESS]
    /\ UNCHANGED << drv, dut, timing, txMsg, regs, fg, isr >>

\* callback: TRUE for a function, FALSE for NULL
CAN_SRV_RegisterCallback(callback) ==
    /\ Idle /\ srv.st = "idle"
    /\ srv' = IF ~srv.s_can_initialized
              THEN [srv EXCEPT !.st = "ret", !.ret = CAN_SRV_NOT_INITIALIZED]
              ELSE [srv EXCEPT !.st = "ret", !.ret = CAN_SRV_SUCCESS,
                               !.s_user_callback = callback]
    /\ UNCHANGED << drv, dut, timing, txMsg, regs, fg, isr >>

(***************************************************************************)
(* The controller hardware                                                 *)
(***************************************************************************)
\* the controller takes part in bus traffic: enabled, out of freeze, ready
Operating(r) == r.MCR \cap {"MDIS", "FRZACK", "NOTRDY", "SOFTRST"} = {}

\* freeze mode is acknowledged once FRZ and HALT are requested on an enabled module
HwFreezeAck ==
    /\ isr.st = "idle"
    /\ {"FRZ", "HALT"} \subseteq regs.MCR
    /\ "MDIS" \notin regs.MCR
    /\ "FRZACK" \notin regs.MCR
    /\ regs' = [regs EXCEPT !.MCR = @ \cup {"FRZACK", "NOTRDY"}]
    /\ UNCHANGED << drv, dut, timing, txMsg, srv, fg, isr >>

\* the soft reset completes: SOFTRST reads 0 again
HwSoftResetDone ==
    /\ isr.st = "idle"
    /\ "SOFTRST" \in regs.MCR
    /\ regs' = [regs EXCEPT !.MCR = @ \ {"SOFTRST"}]
    /\ UNCHANGED << drv, dut, timing, txMsg, srv, fg, isr >>

\* freeze mode is left once FRZ and HALT are withdrawn
HwFreezeExit ==
    /\ isr.st = "idle"
    /\ regs.MCR \cap {"FRZ", "HALT"} = {}
    /\ "FRZACK" \in regs.MCR
    /\ regs' = [regs EXCEPT !.MCR = @ \ {"FRZACK"}]
    /\ UNCHANGED << drv, dut, timing, txMsg, srv, fg, isr >>

\* the module becomes ready once it is enabled and out of freeze mode
HwReady ==
    /\ isr.st = "idle"
    /\ regs.MCR \cap {"MDIS", "FRZACK"} = {}
    /\ "NOTRDY" \in regs.MCR
    /\ regs' = [regs EXCEPT !.MCR = @ \ {"NOTRDY"}]
    /\ UNCHANGED << drv, dut, timing, txMsg, srv, fg, isr >>

\* a frame armed for transmission has been sent: CODE becomes TX-inactive and
\* the mailbox's flag is raised
HwTxComplete(m) ==
    /\ isr.st = "idle"
    /\ Operating(regs)
    /\ CsCode(MbCs(regs, m)) = CAN_CS_CODE_TX_DATA
    /\ regs' = [regs EXCEPT
                  !.RAMn[CAN_GetMbOffset(m)][1] = (@ \div 16) * 16 + CAN_CS_CODE_TX_INACTIVE,
                  !.IFLAG1 = @ \cup {m}]
    /\ UNCHANGED << drv, dut, timing, txMsg, srv, fg, isr >>

\* a frame f from the bus is stored into an armed, unlocked receive mailbox of
\* the same identifier type: CODE becomes RX-full (RX-overrun when the mailbox
\* holds a frame that has not been serviced) and the mailbox's flag is raised
HwRxFrame(m, f) ==
    /\ isr.st = "idle"
    /\ Operating(regs)
    /\ regs.lock # m
    /\ LET cs == MbCs(regs, m)
           code == IF CsCode(cs) = CAN_CS_CODE_RX_EMPTY \/ m \in regs.serviced
                   THEN CAN_CS_CODE_RX_FULL
                   ELSE CAN_CS_CODE_RX_OVERRUN
           off == CAN_GetMbOffset(m)
       IN /\ CsCode(cs) \in {CAN_CS_CODE_RX_EMPTY, CAN_CS_CODE_RX_FULL,
                             CAN_CS_CODE_RX_OVERRUN}
          /\ CsIde(cs) = f.idType
          /\ regs' = [regs EXCEPT
                        !.RAMn[off] = MakeCs(code, 0, f.idType, f.frameType, f.dataLength),
                        !.RAMn[off + 1] = EncodeId(f.id, f.idType),
                        !.RAMn[off + 2] = PackData0(f.data),
                        !.RAMn[off + 3] = PackData1(f.data),
                        !.IFLAG1 = @ \cup {m},
                        !.serviced = @ \ {m}]
    /\ UNCHANGED << drv, dut, timing, txMsg, srv, fg, isr >>

\* x & y for numbers 0 <= x, y
RECURSIVE BitAnd(_, _)
BitAnd(x, y) ==
    IF x = 0 \/ y = 0 THEN 0
    ELSE (x % 2) * (y % 2) + 2 * BitAnd(x \div 2, y \div 2)

\* u & v for words
WordAnd(u, v) == [n \in 1 .. 4 |-> BitAnd(u[n], v[n])]

\* The mask the controller applies when it matches a frame against mailbox m:
\* the individual mask RXIMR[m] when MCR.IRMQ is set, the global mask RXMGMASK
\* otherwise.  A mask bit of 1 means the identifier bit must match.
AcceptanceMask(r, m) == IF "IRMQ" \in r.MCR THEN r.RXIMR[m] ELSE r.RXMGMASK

\* the bits of the ID word that hold the identifier of a frame of type idType:
\* CAN_ID_STD_MASK, CAN_ID_EXT_MASK
IdField(idType) ==
    IF idType = CAN_ID_STD THEN Word(2047 * Pow2(18)) ELSE Word(Pow2(29) - 1)

\* the controller stores frame f into mailbox m: the mailbox is armed for
\* reception, of f's identifier type, and the ID word of the mailbox agrees
\* with f's identifier in every identifier bit the mask selects
Accepts(r, m, f) ==
    LET cs == MbCs(r, m)
        sel == WordAnd(AcceptanceMask(r, m), IdField(f.idType))
    IN /\ CsCode(cs) \in {CAN_CS_CODE_RX_EMPTY, CAN_CS_CODE_RX_FULL,
                          CAN_CS_CODE_RX_OVERRUN}
       /\ CsIde(cs) = f.idType
       /\ WordAnd(EncodeId(f.id, f.idType), sel) = WordAnd(MbId(r, m), sel)

\* a frame from the bus goes through the acceptance filter of mailbox m
HwRxFiltered(m, f) ==
    /\ Accepts(regs, m, f)
    /\ HwRxFrame(m, f)

\* the frame a transmit mailbox holds, as the controller puts it on the bus
MbFrame(r, m) ==
    LET cs == MbCs(r, m) IN
    [id |-> DecodeId(MbId(r, m), CsIde(cs)), idType |-> CsIde(cs),
     frameType |-> CsRtr(cs), dataLength |-> CsDlc(cs),
     data |-> UnpackData(MbData0(r, m), MbData1(r, m))]

\* Loop-back mode with self-reception enabled: the data frame armed in transmit
\* mailbox tx is sent, and the controller receives it itself.  If receive
\* mailbox rx accepts the frame, it takes the frame's CS fields, its ID word and
\* its dataLength data bytes (the other data bytes of rx are left as they were)
\* and its flag is raised; the frame waits while rx is locked.
HwLoopback(tx, rx) ==
    /\ isr.st = "idle"
    /\ Operating(regs)
    /\ regs.CTRL1.lpb = 1
    /\ "SRXDIS" \notin regs.MCR
    /\ CsCode(MbCs(regs, tx)) = CAN_CS_CODE_TX_DATA
    /\ CsRtr(MbCs(regs, tx)) = 0
    /\ LET f == MbFrame(regs, tx)
           sent == [regs EXCEPT
                      !.RAMn[CAN_GetMbOffset(tx)][1] =
                          (@ \div 16) * 16 + CAN_CS_CODE_TX_INACTIVE,
                      !.IFLAG1 = @ \cup {tx}]
           cs == MbCs(regs, rx)
           code == IF CsCode(cs) = CAN_CS_CODE_RX_EMPTY \/ rx \in regs.serviced
                   THEN CAN_CS_CODE_RX_FULL
                   ELSE CAN_CS_CODE_RX_OVERRUN
           off == CAN_GetMbOffset(rx)
           old == UnpackData(MbData0(regs, rx), MbData1(regs, rx))
           new == [n \in 1 .. 8 |-> IF n <= f.dataLength THEN f.data[n] ELSE old[n]]
       IN IF Accepts(regs, rx, f)
          THEN /\ regs.lock # rx
               /\ regs' = [sent EXCEPT
                             !.RAMn[off] = MakeCs(code, 0, f.idType, f.frameType,
                                                  f.dataLength),
                             !.RAMn[off + 1] = MbId(regs, tx),
                             !.RAMn[off + 2] = PackData0(new),
                             !.RAMn[off + 3] = PackData1(new),
                             !.IFLAG1 = @ \cup {rx},
                             !.serviced = @ \ {rx}]
          ELSE regs' = sent
    /\ UNCHANGED << drv, dut, timing, txMsg, srv, fg, isr >>

(***************************************************************************)
(* Inputs                                                                  *)
(***************************************************************************)
\* the busy-wait iterations the model follows before the hardware must answer
MaxPolls == 2

\* the word the message-buffer RAM holds at power-on
PowerOnJunk == Word(0)

FilterA == [id |-> 291, mask |-> Word(2047 * Pow2(18)), idType |-> CAN_ID_STD]
FilterB == [id |-> 305419896, mask |-> Word(536870911), idType |-> CAN_ID_EXT]

CfgGood == [instance |-> 0, clockSource |-> CAN_CLK_SRC_BUSCLOCK, baudRate |-> 500000,
            mode |-> CAN_MODE_NORMAL, enableSelfReception |-> FALSE, useRxFifo |-> FALSE]
CfgBadBaud == [CfgGood EXCEPT !.baudRate = 0]
CfgBadInstance == [CfgGood EXCEPT !.instance = CAN_INSTANCE_COUNT]
CfgArgs == {CfgGood, CfgBadBaud, CfgBadInstance}

\* an instance argument: the controller in use, or one past the last instance
InstArgs == {0, CAN_INSTANCE_COUNT}
IndexArgs == {0, NO_INSTANCE}
TimeoutArgs == {0, 1}

\* <<instance, mbIndex, message>>: a valid call, and the calls with one bad argument
SendArgs ==
    {<< 0, CAN_TX_MB_START, Ptr(MsgA) >>, << CAN_INSTANCE_COUNT, CAN_TX_MB_START, Ptr(MsgA) >>,
     << 0, CAN_TX_MB_START, Null >>, << 0, CAN_TX_MB_START - 1, Ptr(MsgA) >>,
     << 0, CAN_TX_MB_START + CAN_TX_MB_COUNT, Ptr(MsgA) >>,
     << 0, CAN_TX_MB_START, Ptr(MsgTooLong) >>}
ReceiveArgs ==
    {<< 0, CAN_RX_MB_START, Ptr(StaleMsg) >>,
     << CAN_INSTANCE_COUNT, CAN_RX_MB_START, Ptr(StaleMsg) >>,
     << 0, CAN_RX_MB_START, Null >>, << 0, CAN_RX_MB_START - 1, Ptr(StaleMsg) >>,
     << 0, CAN_MB_COUNT, Ptr(StaleMsg) >>}
\* <<instance, mbIndex, filter is NULL>>
FilterArgs ==
    {<< 0, CAN_RX_MB_START, FALSE >>, << CAN_INSTANCE_COUNT, CAN_RX_MB_START, FALSE >>,
     << 0, CAN_RX_MB_START, TRUE >>, << 0, CAN_RX_MB_START - 1, FALSE >>}
\* <<instance, mbIndex>>
TxMailboxArgs ==
    {<< 0, CAN_TX_MB_START >>, << CAN_INSTANCE_COUNT, CAN_TX_MB_START >>,
     << 0, CAN_TX_MB_START - 1 >>}
AbortArgs ==
    {<< 0, CAN_TX_MB_START >>, << CAN_INSTANCE_COUNT, CAN_TX_MB_START >>,
     << 0, CAN_MB_COUNT >>}
\* <<instance, mbIndex, isBusy is NULL>>
IsMbBusyArgs ==
    {<< 0, CAN_TX_MB_START, FALSE >>, << CAN_INSTANCE_COUNT, CAN_TX_MB_START, FALSE >>,
     << 0, CAN_MB_COUNT, FALSE >>, << 0, CAN_TX_MB_START, TRUE >>}

Init ==
    /\ s_canInitialized = [i \in Instances |-> FALSE]
    /\ s_canCallbacks = [i \in Instances |-> FALSE]
    /\ dut = 0
    /\ regs = PowerOnRegs(PowerOnJunk)
    /\ op = "idle" /\ arg = NoArg /\ pc = "idle" /\ loc = NoLoc /\ ret = ""
    /\ log = << >> /\ outMsg = StaleMsg
    /\ isr = NoIsr
    /\ timing = StaleTiming
    /\ txMsg = MsgA
    /\ srv = NoSrv

\* the controller's answers to the freeze, reset and unfreeze requests
Freezing ==
    \/ HwFreezeAck
    \/ HwSoftResetDone
    \/ HwFreezeExit
    \/ HwReady

(***************************************************************************)
(* Specification 1: the application initializes and deinitializes the      *)
(* driver and calls every operation with good and bad arguments; the bus   *)
(* is silent.                                                              *)
(***************************************************************************)
Calls ==
    \/ \E c \in CfgArgs : CAN_Init(c, FALSE)
    \/ CAN_Init(NoCfg, TRUE)
    \/ \E i \in InstArgs : CAN_Deinit(i)
    \/ \E a \in SendArgs : CAN_Send(a[1], a[2], a[3])
    \/ \E a \in SendArgs, t \in TimeoutArgs : CAN_SendBlocking(a[1], a[2], a[3], t)
    \/ \E a \in ReceiveArgs : CAN_Receive(a[1], a[2], a[3])
    \/ \E a \in ReceiveArgs, t \in TimeoutArgs : CAN_ReceiveBlocking(a[1], a[2], a[3], t)
    \/ \E a \in FilterArgs : CAN_ConfigRxFilter(a[1], a[2], FilterA, a[3])
    \/ \E a \in TxMailboxArgs : CAN_ConfigTxMailbox(a[1], a[2])
    \/ \E a \in AbortArgs : CAN_AbortTransmission(a[1], a[2])
    \/ \E a \in IsMbBusyArgs : CAN_IsMbBusy(a[1], a[2], a[3])
    \/ \E x \in IndexArgs : CAN_RegisterCallback(x, TRUE)
    \/ \E x \in IndexArgs : CAN_UnregisterCallback(x)

Steps ==
    \/ FgAccess
    \/ CAN_Init_Poll(MaxPolls)
    \/ CAN_SendBlocking_Poll(MaxPolls)
    \/ CAN_ReceiveBlocking_Poll(MaxPolls)
    \/ Return

Next == Calls \/ Steps \/ Freezing

Spec == Init /\ [][Next]_vars

(***************************************************************************)
(* Specification 2: the application initializes the driver once, arms one  *)
(* transmit mailbox and two receive mailboxes (standard frames in the      *)
(* first, extended frames in the second), and sends and receives while     *)
(* frames arrive from the bus and mailbox interrupts are taken.            *)
(***************************************************************************)
TrafficTxMb == CAN_TX_MB_START
TrafficRxMbs == {CAN_RX_MB_START, CAN_RX_MB_START + 1}
TrafficFilter(m) == IF m = CAN_RX_MB_START THEN FilterA ELSE FilterB
RxFrames == {MsgA, MsgB}

\* the start-up calls are made once each, in any order
TrafficCalls ==
    \/ ~s_canInitialized[0] /\ CAN_Init(CfgGood, FALSE)
    \/ TrafficTxMb \notin regs.IMASK1 /\ CAN_ConfigTxMailbox(0, TrafficTxMb)
    \/ \E m \in TrafficRxMbs \ regs.IMASK1 :
          CAN_ConfigRxFilter(0, m, TrafficFilter(m), FALSE)
    \/ ~s_canCallbacks[0] /\ CAN_RegisterCallback(0, TRUE)
    \/ CAN_Send(0, TrafficTxMb, Ptr(MsgA))
    \/ \E m \in TrafficRxMbs : CAN_Receive(0, m, Ptr(StaleMsg))

\* CAN0_ORed_0_15_MB_IRQHandler, CAN0_ORed_16_31_MB_IRQHandler: the vector is
\* taken while a mailbox flag is pending and enabled in IMASK1
MbInterrupt ==
    /\ regs.IFLAG1 \cap regs.IMASK1 # {}
    /\ CAN_IRQHandler(dut)

Bus ==
    \/ HwTxComplete(TrafficTxMb)
    \/ \E m \in TrafficRxMbs, f \in RxFrames : HwRxFrame(m, f)

NextTraffic ==
    \/ TrafficCalls
    \/ FgAccess
    \/ CAN_Init_Poll(MaxPolls)
    \/ Return
    \/ MbInterrupt
    \/ IrqReturn
    \/ Freezing
    \/ Bus

SpecTraffic == Init /\ [][NextTraffic]_vars

(***************************************************************************)
(* Specification 3: CAN_Init against a controller whose acknowledge bits   *)
(* behave in any way at all; every busy-wait is followed to its end.       *)
(***************************************************************************)
AckBits == {"FRZACK", "NOTRDY", "SOFTRST"}

\* an acknowledge bit of MCR changes, whether or not the driver asked for it
HwAckChange(bit) ==
    /\ isr.st = "idle"
    /\ regs' = [regs EXCEPT !.MCR = IF bit \in @ THEN @ \ {bit} ELSE @ \cup {bit}]
    /\ UNCHANGED << drv, dut, timing, txMsg, srv, fg, isr >>

\* the start-up call, made once on the module as the reset left it
FreezeCall ==
    /\ "MDIS" \in regs.MCR
    /\ CAN_Init(CfgGood, FALSE)

\* the processor runs the busy-waits of CAN_Init and its return
FreezeSteps ==
    \/ CAN_Init_Poll(CAN_FREEZE_TIMEOUT + 1)
    \/ Return

NextFreeze ==
    \/ FreezeCall
    \/ FreezeSteps
    \/ \E bit \in AckBits : HwAckChange(bit)

SpecFreeze == Init /\ [][NextFreeze]_vars

(***************************************************************************)
(* Specification 4: the application calls CAN_CalculateTiming with clocks  *)
(* and bit rates from across the 32-bit range.                             *)
(***************************************************************************)
TimingClocks == {0, 1600, 4000000, 8000000, 40000000, 80000000}
TimingBauds == {0, 1, 100, 9600, 125000, 250000, 500000, 1000000, 5000000,
                Pow2(28), Pow2(28) + 500000, Pow2(29)}

NextTiming ==
    \/ \E c \in TimingClocks, b \in TimingBauds, n \in BOOLEAN : CalculateTiming(c, b, n)
    \/ Return

SpecTiming == Init /\ [][NextTiming]_vars

(***************************************************************************)
(* Specification 5: on an initialized instance with a transmit mailbox set *)
(* up, the application calls CAN_SendBlocking, whose polling loop is       *)
(* followed to its end, while the bus completes transmissions and mailbox  *)
(* interrupts are taken.                                                   *)
(***************************************************************************)
\* the longest timeoutMs the application passes
MaxTimeoutMs == 1
BlockingTimeouts == 0 .. MaxTimeoutMs

\* every iteration of the longest polling loop is followed
BlockingCap == TimeoutLimit(MaxTimeoutMs) + 1

SendBlockingCalls ==
    \/ ~s_canInitialized[0] /\ CAN_Init(CfgGood, FALSE)
    \/ CAN_TX_MB_START \notin regs.IMASK1 /\ CAN_ConfigTxMailbox(0, CAN_TX_MB_START)
    \/ ~s_canCallbacks[0] /\ CAN_RegisterCallback(0, TRUE)
    \/ \E t \in BlockingTimeouts :
          /\ CAN_TX_MB_START \in regs.IMASK1
          /\ CAN_SendBlocking(0, CAN_TX_MB_START, Ptr(MsgA), t)

NextSendBlocking ==
    \/ SendBlockingCalls
    \/ FgAccess
    \/ CAN_Init_Poll(MaxPolls)
    \/ CAN_SendBlocking_Poll(BlockingCap)
    \/ CAN_SendBlocking_Clear
    \/ Return
    \/ MbInterrupt
    \/ IrqReturn
    \/ Freezing
    \/ HwTxComplete(CAN_TX_MB_START)

SpecSendBlocking == Init /\ [][NextSendBlocking]_vars

(***************************************************************************)
(* Specification 6: on an initialized instance with a receive mailbox set  *)
(* up, the application calls CAN_ReceiveBlocking, whose polling loop is    *)
(* followed to its end, while frames arrive from the bus and mailbox       *)
(* interrupts are taken.                                                   *)
(***************************************************************************)
\* a frame whose DLC field is 15: it carries 8 data bytes
MsgDlc15 == [MsgA EXCEPT !.dataLength = 15]
BlockingFrames == {MsgDlc15}

\* the bus is slow: a frame arrives only once the frame before it has been
\* taken out of the mailbox, so that no frame is overrun
BlockingBus ==
    /\ \/ CsCode(MbCs(regs, CAN_RX_MB_START)) = CAN_CS_CODE_RX_EMPTY
       \/ CAN_RX_MB_START \in regs.serviced
    /\ \E f \in BlockingFrames : HwRxFrame(CAN_RX_MB_START, f)

ReceiveBlockingCalls ==
    \/ ~s_canInitialized[0] /\ CAN_Init(CfgGood, FALSE)
    \/ CAN_RX_MB_START \notin regs.IMASK1
          /\ CAN_ConfigRxFilter(0, CAN_RX_MB_START, FilterA, FALSE)
    \/ ~s_canCallbacks[0] /\ CAN_RegisterCallback(0, TRUE)
    \/ \E t \in BlockingTimeouts :
          /\ CAN_RX_MB_START \in regs.IMASK1 /\ s_canCallbacks[0]
          /\ CAN_ReceiveBlocking(0, CAN_RX_MB_START, Ptr(StaleMsg), t)

NextReceiveBlocking ==
    \/ ReceiveBlockingCalls
    \/ FgAccess
    \/ CAN_Init_Poll(MaxPolls)
    \/ CAN_ReceiveBlocking_Poll(BlockingCap)
    \/ CAN_ReceiveBlocking_Receive
    \/ Return
    \/ MbInterrupt
    \/ IrqReturn
    \/ Freezing
    \/ BlockingBus

SpecReceiveBlocking == Init /\ [][NextReceiveBlocking]_vars

(***************************************************************************)
(* Specification 7: on an initialized instance the application sets up the *)
(* filter of a receive mailbox and takes out the frames the mailbox        *)
(* accepts from the traffic on the bus.                                    *)
(***************************************************************************)
\* id = 0x200, mask = 0x700: the identifiers 0x200..0x2FF
FilterBlock == [id |-> 512, mask |-> Word(1792), idType |-> CAN_ID_STD]
\* id = 0x123, mask = 0x7FF: the identifier 0x123 alone
FilterExact == [id |-> 291, mask |-> Word(2047), idType |-> CAN_ID_STD]
Filters == {FilterBlock, FilterExact}

\* the standard identifiers on the bus: 0x123, 0x200, 0x201, 0x2FF, 0x300
BusIds == {291, 512, 513, 767, 768}
BusFrame(id) == [MsgA EXCEPT !.id = id]

FilterCalls ==
    \/ ~s_canInitialized[0] /\ CAN_Init(CfgGood, FALSE)
    \/ \E flt \in Filters : CAN_ConfigRxFilter(0, CAN_RX_MB_START, flt, FALSE)
    \/ CAN_Receive(0, CAN_RX_MB_START, Ptr(StaleMsg))

NextFilter ==
    \/ FilterCalls
    \/ FgAccess
    \/ CAN_Init_Poll(MaxPolls)
    \/ Return
    \/ Freezing
    \/ \E id \in BusIds : HwRxFiltered(CAN_RX_MB_START, BusFrame(id))

SpecFilter == Init /\ [][NextFilter]_vars

(***************************************************************************)
(* Specification 8: the controller is initialized in loop-back mode with   *)
(* self-reception; the application composes standard data messages with    *)
(* identifier 0x123, sends them from one transmit mailbox and takes them   *)
(* out of one receive mailbox by polling.                                  *)
(***************************************************************************)
CfgLoopback == [CfgGood EXCEPT !.mode = CAN_MODE_LOOPBACK, !.enableSelfReception = TRUE]

LoopbackLengths == {0, 3, CAN_MAX_DATA_LENGTH}
LoopbackPayloads == {<< 1, 2, 3, 4, 5, 6, 7, 8 >>,
                     << 17, 34, 51, 68, 85, 102, 119, 136 >>}
LoopbackMsgs ==
    {[id |-> 291, idType |-> CAN_ID_STD, frameType |-> CAN_FRAME_DATA,
      dataLength |-> n, data |-> d] : n \in LoopbackLengths, d \in LoopbackPayloads}

\* the application fills its message with the next one to send, once the
\* previous one has gone through the receive mailbox
Compose(m) ==
    /\ Idle
    /\ m # txMsg
    /\ CAN_RX_MB_START \notin regs.IFLAG1
    /\ CsCode(MbCs(regs, CAN_TX_MB_START)) # CAN_CS_CODE_TX_DATA
    /\ txMsg' = m
    /\ UNCHANGED << drv, dut, timing, srv, regs, fg, isr >>

LoopbackCalls ==
    \/ ~s_canInitialized[0] /\ CAN_Init(CfgLoopback, FALSE)
    \/ CAN_ConfigTxMailbox(0, CAN_TX_MB_START)
    \/ CAN_RX_MB_START \notin regs.IMASK1
       /\ CAN_ConfigRxFilter(0, CAN_RX_MB_START, FilterExact, FALSE)
    \/ CAN_Send(0, CAN_TX_MB_START, Ptr(txMsg))
    \/ CAN_Receive(0, CAN_RX_MB_START, Ptr(StaleMsg))
    \/ \E m \in {CAN_TX_MB_START, CAN_RX_MB_START} : CAN_IsMbBusy(0, m, FALSE)

NextLoopback ==
    \/ \E m \in LoopbackMsgs : Compose(m)
    \/ LoopbackCalls
    \/ FgAccess
    \/ CAN_Init_Poll(MaxPolls)
    \/ Return
    \/ Freezing
    \/ HwLoopback(CAN_TX_MB_START, CAN_RX_MB_START)

SpecLoopback == Init /\ [][NextLoopback]_vars

(***************************************************************************)
(* Specification 9: a message is packed into the four words of a mailbox   *)
(* as CAN_Send packs it, and the words are decoded as CAN_Receive decodes  *)
(* them.                                                                   *)
(***************************************************************************)
\* identifiers at the ends of and inside the standard and the extended range
RoundTripStdIds == {0, 1, 291, 1365, 2047}
RoundTripExtIds == {0, 2047, 2048, 262144, 305419896, 536870911}
RoundTripLengths == {0, 1, 5, CAN_MAX_DATA_LENGTH}
RoundTripPayloads == {<< 1, 2, 3, 4, 5, 6, 7, 8 >>, << 255, 0, 128, 127, 0, 255, 1, 254 >>}
RoundTripMsgs ==
    {[id |-> i, idType |-> CAN_ID_STD, frameType |-> t, dataLength |-> n, data |-> d] :
        i \in RoundTripStdIds, t \in {CAN_FRAME_DATA, CAN_FRAME_REMOTE},
        n \in RoundTripLengths, d \in RoundTripPayloads}
    \cup
    {[id |-> i, idType |-> CAN_ID_EXT, frameType |-> t, dataLength |-> n, data |-> d] :
        i \in RoundTripExtIds, t \in {CAN_FRAME_DATA, CAN_FRAME_REMOTE},
        n \in RoundTripLengths, d \in RoundTripPayloads}

\* the words CAN_Send writes for message m
PackMailbox(m) ==
    [NoLoc EXCEPT !.cs = CAN_Send_Cs(m), !.id = EncodeId(m.id, m.idType),
                  !.data0 = PackData0(m.data), !.data1 = PackData1(m.data)]

Pack(m) ==
    /\ op = "idle"
    /\ op' = "pack" /\ pc' = "run"
    /\ txMsg' = m
    /\ loc' = PackMailbox(m)
    /\ UNCHANGED << drv, dut, timing, srv, regs, arg, ret, log, outMsg, isr >>

Unpack ==
    /\ op = "pack" /\ pc = "run"
    /\ op' = "unpack" /\ pc' = "ret"
    /\ ret' = STATUS_SUCCESS
    /\ outMsg' = CAN_Receive_Message(loc)
    /\ UNCHANGED << drv, dut, timing, txMsg, srv, regs, arg, loc, log, isr >>

NextRoundTrip ==
    \/ \E m \in RoundTripMsgs : Pack(m)
    \/ Unpack
    \/ Return

SpecRoundTrip == Init /\ [][NextRoundTrip]_vars

(***************************************************************************)
(* Specification 10: the service layer is brought up over the driver, the  *)
(* user registers and withdraws a callback, and the driver invokes the     *)
(* bridge with every event and message.                                    *)
(***************************************************************************)
CfgService == [CfgGood EXCEPT !.clockSource = CAN_CLK_SRC_SOSCDIV2]

DriverEvents == {CAN_EVENT_NONE, CAN_EVENT_TX_COMPLETE, CAN_EVENT_RX_COMPLETE,
                 CAN_EVENT_ERROR, CAN_EVENT_BUS_OFF, CAN_EVENT_OVERRUN}

\* the message of eventData: NULL, or a message as the dispatcher builds it
DriverMessages == {Null} \cup {Ptr(m) : m \in {MsgA, MsgB, ZeroMsg, StaleMsg} \cup LoopbackMsgs}

\* the driver calls of CAN_SRV_Init, in its order
ServiceInitCalls ==
    \/ ~s_canInitialized[0] /\ CAN_Init(CfgService, FALSE)
    \/ CAN_RX_MB_PRIMARY \notin regs.IMASK1
       /\ CAN_ConfigRxFilter(CAN_DEFAULT_INSTANCE, CAN_RX_MB_PRIMARY, FilterExact, FALSE)
    \/ CAN_RX_MB_PRIMARY \in regs.IMASK1 /\ CAN_TX_MB \notin regs.IMASK1
       /\ CAN_ConfigTxMailbox(CAN_DEFAULT_INSTANCE, CAN_TX_MB)
    \/ CAN_TX_MB \in regs.IMASK1 /\ ~s_canCallbacks[0]
       /\ srv.st = "idle"
       /\ CAN_RegisterCallback(CAN_DEFAULT_INSTANCE, TRUE)

NextService ==
    \/ ServiceInitCalls
    \/ FgAccess
    \/ CAN_Init_Poll(MaxPolls)
    \/ Return
    \/ Freezing
    \/ CAN_SRV_Init_Done
    \/ \E cb \in BOOLEAN : CAN_SRV_RegisterCallback(cb)
    \/ \E e \in DriverEvents, m \in DriverMessages : CAN_SRV_DriverCallback(e, m)
    \/ CAN_SRV_Return

SpecService == Init /\ [][NextService]_vars

(***************************************************************************)
(* Specification 11: interrupt-driven operation.  The application         *)
(* initialises the controller, shuts it down and initialises it again,     *)
(* receives in the foreground, sets up one                                 *)
(* transmit and one receive mailbox, registers or withdraws the            *)
(* callback, sends and aborts; frames complete and arrive; the mailbox     *)
(* interrupt is taken again and again while a flag is pending and enabled, *)
(* and every dispatcher invocation returns.                                *)
(***************************************************************************)
\* a standard-identifier message whose id field holds more than 11 bits
MsgWide == [MsgA EXCEPT !.id = MsgB.id]
DispatchMsgs == {MsgA, MsgB, MsgWide}
DispatchFilters == {FilterA, FilterB}

DispatchCalls ==
    \/ ~s_canInitialized[0] /\ CAN_Init(CfgGood, FALSE)
    \/ CAN_TX_MB_START \notin regs.IMASK1 /\ CAN_ConfigTxMailbox(0, CAN_TX_MB_START)
    \/ CAN_RX_MB_START \notin regs.IMASK1
       /\ \E flt \in DispatchFilters : CAN_ConfigRxFilter(0, CAN_RX_MB_START, flt, FALSE)
    \/ ~s_canCallbacks[0] /\ CAN_RegisterCallback(0, TRUE)
    \/ s_canCallbacks[0] /\ CAN_UnregisterCallback(0)
    \/ \E m \in DispatchMsgs : CAN_Send(0, CAN_TX_MB_START, Ptr(m))
    \/ CAN_AbortTransmission(0, CAN_TX_MB_START)
    \/ CAN_Receive(0, CAN_RX_MB_START, Ptr(StaleMsg))
    \/ s_canInitialized[0] /\ CAN_Deinit(0)

\* the events that raise a flag
DispatchBus ==
    \/ HwTxComplete(CAN_TX_MB_START)
    \/ \E f \in RxFrames : HwRxFrame(CAN_RX_MB_START, f)

NextDispatch ==
    \/ DispatchCalls
    \/ FgAccess
    \/ CAN_Init_Poll(MaxPolls)
    \/ Return
    \/ Freezing
    \/ DispatchBus
    \/ MbInterrupt
    \/ IrqReturn

SpecDispatch ==
    Init /\ [][NextDispatch]_vars /\ WF_vars(MbInterrupt) /\ WF_vars(IrqReturn)

(***************************************************************************)
(* Properties                                                              *)
(***************************************************************************)
IsPrefix(u, v) == Len(u) <= Len(v) /\ SubSeq(v, 1, Len(u)) = u

\* log entries
WriteOf(k) == [a |-> "W", r |-> "RAMn", k |-> k]
ReadOf(k) == [a |-> "R", r |-> "RAMn", k |-> k]
FlagClear == [a |-> "W1C", r |-> "IFLAG1", k |-> 0]
FlagRead == [a |-> "R", r |-> "IFLAG1", k |-> 0]
TimerRead == [a |-> "R", r |-> "TIMER", k |-> 0]

\* every entry of S occurs in lg before position j
AllBefore(lg, j, S) == \A e \in S : \E i \in 1 .. (j - 1) : lg[i] = e

\* C1: throughout a CAN_Send the accesses made so far are the beginning of:
\* clear the mailbox's flag, write the two data words, write the ID word,
\* write the CS word.  The call returns success having made all five, the CS
\* write is the step that returns, and the CS word it leaves holds the
\* transmit activation code.
C1_SendOrder ==
    [][op' = "CAN_Send" =>
         LET off == CAN_GetMbOffset(arg'.mb) IN
         /\ \/ IsPrefix(log', << FlagClear, WriteOf(off + 2), WriteOf(off + 3),
                                 WriteOf(off + 1), WriteOf(off) >>)
            \/ IsPrefix(log', << FlagClear, WriteOf(off + 3), WriteOf(off + 2),
                                 WriteOf(off + 1), WriteOf(off) >>)
         /\ (pc' = "ret" /\ ret' = STATUS_SUCCESS) => Len(log') = 5
         /\ (Len(log') = 5 /\ Len(log) = 4) =>
               /\ pc' = "ret" /\ ret' = STATUS_SUCCESS
               /\ CsCode(MbCs(regs', arg'.mb)) = CAN_CS_CODE_TX_DATA]_vars

\* a CAN_Send has returned success
C1_Witness ==
    /\ op = "CAN_Send" /\ pc = "ret" /\ ret = STATUS_SUCCESS
    /\ log[5] = WriteOf(CAN_GetMbOffset(arg.mb))

\* C2: throughout a CAN_Receive, the CS word is read before the other three
\* mailbox words, the timer is read only after all four, the flag is cleared
\* only after a timer read, and nothing else is written; a successful call
\* has cleared the flag.
C2_ReceiveOrder ==
    op = "CAN_Receive" =>
       LET off == CAN_GetMbOffset(arg.mb)
           words == {ReadOf(off), ReadOf(off + 1), ReadOf(off + 2), ReadOf(off + 3)}
       IN /\ \A j \in 1 .. Len(log) :
                /\ log[j] \in {FlagRead, TimerRead, FlagClear} \cup words
                /\ log[j] \in words \ {ReadOf(off)} => AllBefore(log, j, {ReadOf(off)})
                /\ log[j] = TimerRead => AllBefore(log, j, words)
                /\ log[j] = FlagClear => AllBefore(log, j, words \cup {TimerRead})
          /\ (pc = "ret" /\ ret = STATUS_SUCCESS) =>
                \E j \in 1 .. Len(log) : log[j] = FlagClear

\* a CAN_Receive has returned success with the frame the bus delivered
C2_Witness ==
    /\ op = "CAN_Receive" /\ pc = "ret" /\ ret = STATUS_SUCCESS
    /\ outMsg = MsgA
    /\ arg.mb \notin regs.IFLAG1

\* C3: when CAN_Init has returned a status other than success for an instance,
\* that instance is marked uninitialized.
C3_FailedInitUninitialized ==
    (/\ op = "CAN_Init" /\ pc = "ret" /\ ret # STATUS_SUCCESS
     /\ ~arg.cfgNull /\ arg.inst \in Instances)
    => ~s_canInitialized[arg.inst]

\* the operations that read or write a mailbox
MailboxOps ==
    {"CAN_Send", "CAN_SendBlocking", "CAN_Receive", "CAN_ReceiveBlocking",
     "CAN_ConfigRxFilter", "CAN_ConfigTxMailbox", "CAN_AbortTransmission", "CAN_IsMbBusy"}

\* C4: a call of a mailbox operation, with pointers that are not NULL, on a
\* valid instance that is not initialized is rejected with
\* STATUS_NOT_INITIALIZED and changes no register.
C4_UninitializedRejected ==
    [][(/\ op = "idle" /\ op' \in MailboxOps
        /\ arg'.inst \in Instances /\ ~s_canInitialized[arg'.inst]
        /\ ~arg'.msg.null \/ op' \notin {"CAN_Send", "CAN_SendBlocking", "CAN_Receive",
                                         "CAN_ReceiveBlocking"}
        /\ ~arg'.filterNull /\ ~arg'.isBusyNull)
       => (pc' = "ret" /\ ret' = STATUS_NOT_INITIALIZED /\ regs' = regs)]_vars

\* the arguments and driver state for which CAN_Send is to reject the call
C5_Rejected(a) ==
    \/ a.inst >= CAN_INSTANCE_COUNT
    \/ a.msg.null
    \/ ~s_canInitialized[a.inst]
    \/ a.mb \notin 8 .. 15
    \/ a.msg.v.dataLength > 8

\* C5: a CAN_Send call that is to be rejected returns an error status at once,
\* with no register access made and every register as it was.
C5_RejectedSendWritesNothing ==
    [][(op = "idle" /\ op' = "CAN_Send" /\ C5_Rejected(arg'))
       => /\ pc' = "ret"
          /\ ret' \in {STATUS_INVALID_PARAM, STATUS_NOT_INITIALIZED}
          /\ log' = << >>
          /\ regs' = regs]_vars

\* CAN_Send has rejected a 9-byte message for a TX mailbox of an initialized instance
C5_Witness ==
    /\ op = "CAN_Send" /\ pc = "ret" /\ ret = STATUS_INVALID_PARAM
    /\ s_canInitialized[0] /\ arg.inst = 0 /\ arg.mb = CAN_TX_MB_START
    /\ ~arg.msg.null /\ arg.msg.v.dataLength = 9
    /\ log = << >>

\* C7: when CAN_Init has returned STATUS_INVALID_PARAM it has written no
\* register of the controller.
C7_InvalidParamTouchesNothing ==
    (op = "CAN_Init" /\ pc = "ret" /\ ret = STATUS_INVALID_PARAM)
    => SelectSeq(log, IsWrite) = << >>

\* C6: a CAN_Receive call with a message pointer, on an initialized instance
\* and a mailbox 16..31 whose pending flag is clear, returns STATUS_ERROR at
\* once: the caller's message and every register are as they were, and the
\* only access made is the read of the flag register.
C6_NoDataReceive ==
    [][(/\ op = "idle" /\ op' = "CAN_Receive"
        /\ arg'.inst \in Instances /\ s_canInitialized[arg'.inst]
        /\ ~arg'.msg.null
        /\ arg'.mb \in 16 .. 31 /\ arg'.mb \notin regs.IFLAG1)
       => /\ pc' = "ret" /\ ret' = STATUS_ERROR
          /\ outMsg' = outMsg
          /\ regs' = regs
          /\ log' = << FlagRead >>]_vars

\* CAN_Receive has returned STATUS_ERROR for an armed mailbox with no frame
C6_Witness ==
    /\ op = "CAN_Receive" /\ pc = "ret" /\ ret = STATUS_ERROR
    /\ s_canInitialized[arg.inst]
    /\ CsCode(MbCs(regs, arg.mb)) = CAN_CS_CODE_RX_EMPTY
    /\ arg.mb \notin regs.IFLAG1
    /\ outMsg = StaleMsg

\* the busy-waits of CAN_Init still to come, counted from the current one
PhaseRank(phase) ==
    CASE phase = "enter_freeze" -> 3
      [] phase = "soft_reset" -> 2
      [] phase = "exit_frzack" -> 1
      [] OTHER -> 0

\* an upper bound on the loop-condition evaluations CAN_Init has still to make
PollsLeft(l) == PhaseRank(l.phase) * (CAN_FREEZE_TIMEOUT + 1) + l.timeout

\* C8: in each busy-wait of CAN_Init the iteration budget starts at
\* CAN_FREEZE_TIMEOUT and never goes below 0; an evaluation of the loop
\* condition while the awaited bit is missing uses up one iteration; with the
\* budget at 0 the transition ends with STATUS_TIMEOUT and CAN_Init returns;
\* and every evaluation either returns from CAN_Init or lowers PollsLeft, so
\* CAN_Init returns after at most 4 * (CAN_FREEZE_TIMEOUT + 1) evaluations
\* whatever the acknowledge bits do.
C8_BoundedWaits ==
    [][(op = "CAN_Init" /\ pc = "poll" /\ << pc, loc >>' # << pc, loc >>)
       => /\ loc.timeout \in 0 .. CAN_FREEZE_TIMEOUT
          /\ (Waiting(regs, loc.phase) /\ loc.timeout > 0)
                => (pc' = "poll" /\ loc' = [loc EXCEPT !.timeout = @ - 1])
          /\ loc.timeout = 0
                => (pc' = "ret" /\ ret' = STATUS_ERROR /\ loc'.status = STATUS_TIMEOUT)
          /\ pc' = "ret" \/ (pc' = "poll" /\ PollsLeft(loc') < PollsLeft(loc))]_vars

\* CAN_Init has returned because an acknowledge did not arrive in
\* CAN_FREEZE_TIMEOUT iterations
C8_Witness ==
    /\ op = "CAN_Init" /\ pc = "ret" /\ ret = STATUS_ERROR
    /\ loc.status = STATUS_TIMEOUT /\ loc.timeout = 0
    /\ loc.phase = "exit_notrdy"

\* the lowest-index mailbox of a set of pending flags
Lowest(pending) == CHOOSE m \in pending : \A n \in pending : m <= n

\* a step of the model in which the dispatcher runs
Dispatch == isr.st = "idle" /\ isr'.st = "ret"

\* C9 as stated: with a callback registered and several flags pending, the
\* dispatcher delivers exactly one event, for the lowest pending mailbox, and
\* clears that mailbox's flag and no other.
C9_OneEventAlways ==
    [][(Dispatch /\ s_canCallbacks[isr'.inst] /\ Cardinality(regs.IFLAG1) >= 2)
       => LET m == Lowest(regs.IFLAG1) IN
          /\ Len(isr'.events) = 1
          /\ isr'.events[1].mbIndex = m
          /\ regs'.IFLAG1 = regs.IFLAG1 \ {m}]_vars

\* C9 amended: with a callback registered and several flags pending, the
\* dispatcher touches only the lowest pending mailbox m and every higher flag
\* stays set.  When m's code is TX-inactive or RX-full it delivers exactly one
\* event, for m, of the matching kind, and clears m's flag; for any other code
\* it delivers no event and leaves m's flag set as well.
C9_LowestOnly ==
    [][(Dispatch /\ s_canCallbacks[isr'.inst] /\ Cardinality(regs.IFLAG1) >= 2)
       => LET m == Lowest(regs.IFLAG1)
              code == CsCode(MbCs(regs, m))
          IN /\ regs.IFLAG1 \ {m} \subseteq regs'.IFLAG1
             /\ \A k \in 0 .. (RAM_WORDS - 1) :
                   k \div MSG_BUF_SIZE # m => regs'.RAMn[k] = regs.RAMn[k]
             /\ code \in {CAN_CS_CODE_TX_INACTIVE, CAN_CS_CODE_RX_FULL}
                   => /\ Len(isr'.events) = 1
                      /\ isr'.events[1].mbIndex = m
                      /\ isr'.events[1].event =
                            IF code = CAN_CS_CODE_RX_FULL THEN CAN_EVENT_RX_COMPLETE
                            ELSE CAN_EVENT_TX_COMPLETE
                      /\ regs'.IFLAG1 = regs.IFLAG1 \ {m}
             /\ code \notin {CAN_CS_CODE_TX_INACTIVE, CAN_CS_CODE_RX_FULL}
                   => /\ isr'.events = << >>
                      /\ regs'.IFLAG1 = regs.IFLAG1]_vars

\* the dispatcher has run with the flags of both receive mailboxes pending and
\* has delivered the frame of the first only; the second flag is still set
C9_Witness ==
    /\ isr.st = "ret" /\ s_canCallbacks[isr.inst]
    /\ isr.iflag1 = {CAN_RX_MB_START, CAN_RX_MB_START + 1}
    /\ Len(isr.events) = 1
    /\ isr.events[1].event = CAN_EVENT_RX_COMPLETE
    /\ isr.events[1].mbIndex = CAN_RX_MB_START
    /\ regs.IFLAG1 = {CAN_RX_MB_START + 1}

\* C10: when the dispatcher runs and the lowest pending mailbox m has code
\* TX-inactive, m's flag is clear when it returns, and if a callback is
\* registered it has received one TX-complete event carrying m.
C10_TxCompleteCleared ==
    [][(/\ Dispatch /\ regs.IFLAG1 # {}
        /\ CsCode(MbCs(regs, Lowest(regs.IFLAG1))) = CAN_CS_CODE_TX_INACTIVE)
       => LET m == Lowest(regs.IFLAG1) IN
          /\ m \notin regs'.IFLAG1
          /\ s_canCallbacks[isr'.inst]
                => isr'.events = << [event |-> CAN_EVENT_TX_COMPLETE, mbIndex |-> m,
                                     message |-> Null] >>]_vars

\* floor(canClockHz / (baudRate * numTq)) - 1 over the integers
ExactPreDiv(canClockHz, baudRate, numTq) == (canClockHz \div numTq) \div baudRate - 1

\* C17: CAN_CalculateTiming with a NULL output, a zero clock or a zero bit rate
\* returns STATUS_INVALID_PARAM; otherwise it succeeds on the 16-quanta branch
\* with a prescaler in 0..255 when clock/(bitrate*16) - 1 is in 0..255, else
\* succeeds on the 8-quanta branch when clock/(bitrate*8) - 1 is in 0..255,
\* else returns STATUS_INVALID_PARAM.  (Calls in which a division by zero
\* happens are left to C19.)
C17_TimingBranches ==
    (op = "CAN_CalculateTiming" /\ pc = "ret" /\ ~loc.divByZero)
    => LET c == arg.canClockHz
           b == arg.baudRate
       IN /\ ret \in {STATUS_SUCCESS, STATUS_INVALID_PARAM}
          /\ IF arg.timingNull \/ c = 0 \/ b = 0 THEN ret = STATUS_INVALID_PARAM
             ELSE IF ExactPreDiv(c, b, 16) \in 0 .. 255
             THEN ret = STATUS_SUCCESS /\ loc.numTq = 16 /\ timing.preDiv \in 0 .. 255
             ELSE IF ExactPreDiv(c, b, 8) \in 0 .. 255
             THEN ret = STATUS_SUCCESS /\ loc.numTq = 8 /\ timing.preDiv \in 0 .. 255
             ELSE ret = STATUS_INVALID_PARAM

\* C18: when CAN_CalculateTiming succeeds with numTq quanta per bit, the
\* prescaler it returns is clock/(bitrate*numTq) - 1.
C18_PrescalerReturned ==
    (op = "CAN_CalculateTiming" /\ pc = "ret" /\ ret = STATUS_SUCCESS
     /\ ~loc.divByZero)
    => timing.preDiv = ExactPreDiv(arg.canClockHz, arg.baudRate, loc.numTq)

\* a clock and bit rate no prescaler in 0..255 can serve with 8 or 16 quanta
Unachievable(canClockHz, baudRate) ==
    \/ baudRate = 0
    \/ canClockHz = 0
    \/ (canClockHz \div 8) \div baudRate = 0

\* C19: a call of CAN_CalculateTiming with an unachievable clock and bit rate
\* returns STATUS_INVALID_PARAM without dividing by zero, and a call that does
\* not succeed leaves the caller's timing structure as it was.
C19_UnachievableRejected ==
    [][(op = "idle" /\ op' = "CAN_CalculateTiming")
       => /\ Unachievable(arg'.canClockHz, arg'.baudRate)
                => (pc' = "ret" /\ ret' = STATUS_INVALID_PARAM /\ ~loc'.divByZero)
          /\ ret' # STATUS_SUCCESS => timing' = timing]_vars

\* the mailbox indices each operation permits
TxRangeOps == {"CAN_Send", "CAN_SendBlocking", "CAN_ConfigTxMailbox"}
RxRangeOps == {"CAN_Receive", "CAN_ReceiveBlocking", "CAN_ConfigRxFilter"}
PermittedRange(name) == IF name \in TxRangeOps THEN 8 .. 15 ELSE 16 .. 31

\* C14: a call of one of the six range-checked operations on an initialized
\* instance, with pointers that are not NULL and a mailbox index outside the
\* operation's range, has returned STATUS_INVALID_PARAM as soon as it has
\* started: it is never found polling or running, and it has made no register
\* access.
C14_OutOfRangeRejected ==
    (/\ op \in TxRangeOps \cup RxRangeOps
     /\ arg.inst \in Instances /\ s_canInitialized[arg.inst]
     /\ op \in {"CAN_ConfigTxMailbox", "CAN_ConfigRxFilter"} \/ ~arg.msg.null
     /\ ~arg.filterNull
     /\ arg.mb \notin PermittedRange(op))
    => (pc = "ret" /\ ret = STATUS_INVALID_PARAM /\ log = << >>)

\* C15: a blocking call with timeoutMs = 0 does not return STATUS_TIMEOUT while
\* the mailbox's pending flag is clear.
C15_ZeroWaitsForever ==
    (/\ op \in {"CAN_SendBlocking", "CAN_ReceiveBlocking"}
     /\ arg.tmo = 0 /\ pc = "ret"
     /\ arg.mb \in Mailboxes /\ arg.mb \notin regs.IFLAG1)
    => ret # STATUS_TIMEOUT

\* a step in which the polling loop of the blocking call in progress evaluates
\* its condition
PollStep == pc = "poll" /\ << pc, loc >>' # << pc, loc >>

\* C11: a poll that CAN_SendBlocking makes within its bound after the frame it
\* armed has been transmitted (the mailbox's code is TX-inactive) finds the
\* pending flag set; the call then clears the flag and returns
\* STATUS_SUCCESS.
C11_CompletedSendSucceeds ==
    [][/\ (/\ op = "CAN_SendBlocking" /\ PollStep
           /\ loc.timeoutCount < arg.tmo * POLLS_PER_MS
           /\ CsCode(MbCs(regs, arg.mb)) = CAN_CS_CODE_TX_INACTIVE)
          => pc' = "clear"
       /\ (op = "CAN_SendBlocking" /\ pc = "clear" /\ pc' # "clear")
          => (pc' = "ret" /\ ret' = STATUS_SUCCESS /\ arg.mb \notin regs'.IFLAG1)]_vars

\* C12: a poll of CAN_SendBlocking that finds the pending flag clear uses up
\* one of the timeoutMs * 1000 iterations, and with none left the call returns
\* STATUS_TIMEOUT; the iteration count never exceeds the bound, so the call
\* returns after at most timeoutMs * 1000 + 1 polls; and the call returns
\* STATUS_SUCCESS only from a poll that found the flag set.
C12_SilentSendTimesOut ==
    [][/\ (op = "CAN_SendBlocking" /\ PollStep /\ arg.mb \notin regs.IFLAG1)
          => /\ loc.timeoutCount <= arg.tmo * POLLS_PER_MS
             /\ loc.timeoutCount < arg.tmo * POLLS_PER_MS
                   => (pc' = "poll" /\ loc'.timeoutCount = loc.timeoutCount + 1)
             /\ loc.timeoutCount = arg.tmo * POLLS_PER_MS
                   => (pc' = "ret" /\ ret' = STATUS_TIMEOUT)
       /\ (op = "CAN_SendBlocking" /\ ret' = STATUS_SUCCESS /\ ret # STATUS_SUCCESS)
          => pc = "clear"
       /\ (op = "CAN_SendBlocking" /\ pc' = "clear" /\ pc # "clear")
          => (PollStep /\ arg.mb \in regs.IFLAG1)]_vars

\* CAN_SendBlocking has returned STATUS_TIMEOUT after polling a flag that was
\* never raised for the whole of a non-empty window: the frame is still armed
C12_Witness ==
    /\ op = "CAN_SendBlocking" /\ pc = "ret" /\ ret = STATUS_TIMEOUT
    /\ arg.tmo > 0 /\ loc.timeoutCount = arg.tmo * POLLS_PER_MS
    /\ CsCode(MbCs(regs, arg.mb)) = CAN_CS_CODE_TX_DATA
    /\ arg.mb \notin regs.IFLAG1

\* the message CAN_Receive returns for frame f
Delivered(f) == [f EXCEPT !.id = f.id % (IF f.idType = CAN_ID_STD THEN Pow2(11) ELSE Pow2(29))]

\* C13: CAN_ReceiveBlocking returns STATUS_SUCCESS, STATUS_TIMEOUT,
\* STATUS_INVALID_PARAM or STATUS_NOT_INITIALIZED and nothing else, and when it
\* has returned STATUS_SUCCESS the caller's message is a frame from the bus.
C13_ReceiveBlockingStatus ==
    (op = "CAN_ReceiveBlocking" /\ pc = "ret")
    => /\ ret \in {STATUS_SUCCESS, STATUS_TIMEOUT, STATUS_INVALID_PARAM,
                   STATUS_NOT_INITIALIZED}
       /\ ret = STATUS_SUCCESS => \E f \in BlockingFrames : outMsg = Delivered(f)

\* C16: the message of a receive call that has returned STATUS_SUCCESS, and the
\* message of every RX-complete event, has dataLength in 0..8.
C16_DataLengthBounded ==
    /\ (op \in {"CAN_Receive", "CAN_ReceiveBlocking"} /\ pc = "ret"
        /\ ret = STATUS_SUCCESS)
       => outMsg.dataLength \in 0 .. 8
    /\ \A n \in 1 .. Len(isr.events) :
          isr.events[n].event = CAN_EVENT_RX_COMPLETE
             => isr.events[n].message.v.dataLength \in 0 .. 8

\* C20: when CAN_ConfigRxFilter has returned STATUS_SUCCESS for a filter whose
\* id and mask are identifier values, the mailbox accepts a frame of the
\* filter's type from the bus exactly when the frame's identifier agrees with
\* the filter's id in the bits set in the mask.
C20_FilterSemantics ==
    (op = "CAN_ConfigRxFilter" /\ pc = "ret" /\ ret = STATUS_SUCCESS)
    => \A id \in BusIds :
          Accepts(regs, arg.mb, [BusFrame(id) EXCEPT !.idType = arg.filter.idType])
          <=> BitAnd(id, Low29(arg.filter.mask))
                 = BitAnd(arg.filter.id, Low29(arg.filter.mask))

\* the fields of a message and the dataLength bytes of its payload
SameMessage(m, n) ==
    /\ m.id = n.id /\ m.idType = n.idType /\ m.frameType = n.frameType
    /\ m.dataLength = n.dataLength
    /\ \A k \in 1 .. n.dataLength : m.data[k] = n.data[k]

\* C21: in loop-back mode with self-reception, once the message the application
\* sent has been delivered into the receive mailbox (its flag is raised),
\* CAN_Receive on that mailbox gets past its flag check and returns
\* STATUS_SUCCESS with a message equal to the one sent in id, idType,
\* frameType, dataLength and payload.
C21_LoopbackRoundTrip ==
    [][/\ (op = "idle" /\ op' = "CAN_Receive" /\ arg'.mb \in regs.IFLAG1) => pc' = "run"
       /\ (op = "CAN_Receive" /\ pc = "run" /\ pc' = "ret")
          => (ret' = STATUS_SUCCESS /\ SameMessage(outMsg', txMsg))]_vars

C21_Witness ==
    /\ op = "CAN_Receive" /\ pc = "ret" /\ ret = STATUS_SUCCESS
    /\ regs.CTRL1.lpb = 1
    /\ outMsg.id = 291 /\ outMsg.dataLength = 3 /\ txMsg.dataLength = 3
    /\ outMsg.data # txMsg.data

\* C22: a message with a standard identifier in 0..0x7FF or an extended
\* identifier in 0..0x1FFFFFFF, any frame type and a dataLength in 0..8, packed
\* into CS, ID and data words as CAN_Send packs it and decoded as CAN_Receive
\* decodes it, comes back with the same id, idType, frameType, dataLength and
\* the same eight payload bytes.
C22_RoundTrip ==
    op = "unpack" => outMsg = txMsg

C22_Witness ==
    /\ op = "unpack"
    /\ txMsg.idType = CAN_ID_STD /\ txMsg.id = 2047
    /\ txMsg.frameType = CAN_FRAME_REMOTE /\ txMsg.dataLength = 5
    /\ outMsg = txMsg

\* what CAN_ConfigTxMailbox establishes for mailbox mb: the CS word holds CODE
\* TX-inactive and nothing else, and the mailbox's interrupt is enabled
TxMailboxSetUp(r, mb) ==
    /\ MbCs(r, mb) = MakeCs(CAN_CS_CODE_TX_INACTIVE, 0, 0, 0, 0)
    /\ mb \in r.IMASK1

\* C23: a CAN_ConfigTxMailbox that returns STATUS_SUCCESS leaves the mailbox
\* with CODE TX-inactive and its interrupt enabled, and every register access of
\* a CAN_ConfigTxMailbox made on a mailbox already in that state (the second of
\* two calls in a row) leaves the mailbox words, IMASK1 and IFLAG1 as they are.
C23_ConfigTxIdempotent ==
    [][/\ (op' = "CAN_ConfigTxMailbox" /\ pc' = "ret" /\ ret' = STATUS_SUCCESS)
          => TxMailboxSetUp(regs', arg'.mb)
       /\ (op = "CAN_ConfigTxMailbox" /\ pc = "run" /\ log' # log
           /\ TxMailboxSetUp(regs, arg.mb))
          => (regs'.RAMn = regs.RAMn /\ regs'.IMASK1 = regs.IMASK1
              /\ regs'.IFLAG1 = regs.IFLAG1)]_vars

\* a call on a mailbox that an earlier call has set up, and whose flag is
\* pending, has written the CS word and is about to enable the interrupt
C23_Witness ==
    /\ op = "CAN_ConfigTxMailbox" /\ pc = "run" /\ loc.i = 2
    /\ arg.mb \in regs.IFLAG1
    /\ TxMailboxSetUp(regs, arg.mb)

\* a transmit mailbox holds a queued message whose transmission has not
\* completed; a receive mailbox holds a received message that has not been read
InUse(r, mb) ==
    IF mb < CAN_RX_MB_START
    THEN CsCode(MbCs(r, mb)) = CAN_CS_CODE_TX_DATA
    ELSE /\ CsCode(MbCs(r, mb)) \in {CAN_CS_CODE_RX_FULL, CAN_CS_CODE_RX_OVERRUN}
         /\ mb \notin r.serviced

\* C24: when CAN_IsMbBusy reads the mailbox, the value it stores through isBusy
\* is true exactly if the mailbox is a transmit mailbox between CAN_Send and the
\* completion of the transmission, or a receive mailbox holding an unread
\* message; a transmit mailbox just set up and an armed receive mailbox that
\* has received nothing are reported not busy.
C24_BusyExact ==
    [][(op = "CAN_IsMbBusy" /\ pc = "run" /\ pc' = "ret")
       => (loc'.isBusy <=> InUse(regs, arg.mb))]_vars

ForwardedEvents == {CAN_EVENT_TX_COMPLETE, CAN_EVENT_RX_COMPLETE, CAN_EVENT_ERROR,
                    CAN_EVENT_BUS_OFF}

\* the service event a driver event is forwarded as
SrvEventOf(event) ==
    CASE event = CAN_EVENT_TX_COMPLETE -> CAN_SRV_EVENT_TX_COMPLETE
      [] event = CAN_EVENT_RX_COMPLETE -> CAN_SRV_EVENT_RX_COMPLETE
      [] event = CAN_EVENT_ERROR -> CAN_SRV_EVENT_ERROR
      [] event = CAN_EVENT_BUS_OFF -> CAN_SRV_EVENT_BUS_OFF
      [] OTHER -> ""

\* C25: the bridge invokes the user callback at most once per driver event; an
\* RX-complete event is forwarded with a non-NULL message whose id, dlc,
\* isExtended, isRemote and eight data bytes are those of the driver message;
\* TX-complete, error and bus-off events are forwarded with a NULL message; any
\* other event, and any event while no user callback is registered, invokes
\* no user callback.
C25_BridgeFaithful ==
    srv.st = "bridge" =>
       /\ Len(srv.calls) <= 1
       /\ Len(srv.calls) = 1 <=> (srv.s_user_callback /\ srv.event \in ForwardedEvents)
       /\ \A n \in 1 .. Len(srv.calls) :
             LET c == srv.calls[n] IN
             /\ c.event = SrvEventOf(srv.event)
             /\ c.null <=> srv.event # CAN_EVENT_RX_COMPLETE
             /\ (srv.event = CAN_EVENT_RX_COMPLETE /\ ~srv.message.null)
                => /\ c.message.id = srv.message.v.id
                   /\ c.message.dlc = srv.message.v.dataLength
                   /\ c.message.isExtended <=> srv.message.v.idType = CAN_ID_EXT
                   /\ c.message.isRemote <=> srv.message.v.frameType = CAN_FRAME_REMOTE
                   /\ c.message.data = srv.message.v.data

C25_Witness ==
    /\ srv.st = "bridge" /\ srv.event = CAN_EVENT_RX_COMPLETE
    /\ srv.message = Ptr(MsgB)
    /\ Len(srv.calls) = 1 /\ srv.calls[1].message.id = MsgB.id

\* the controller owns mailbox mb: a transmission is armed and has not
\* completed, or the mailbox is armed for reception, on a controller that
\* takes part in bus traffic
HwOwned(r, mb) ==
    /\ Operating(r)
    /\ CsCode(MbCs(r, mb)) \in {CAN_CS_CODE_TX_DATA, CAN_CS_CODE_RX_EMPTY,
                                CAN_CS_CODE_RX_FULL, CAN_CS_CODE_RX_OVERRUN}

\* the foreground's step writes the ID word or a data word of mailbox mb
WritesPayload(mb) ==
    /\ Len(log') = Len(log) + 1
    /\ LET e == log'[Len(log')] IN
       /\ e.a = "W" /\ e.r = "RAMn"
       /\ e.k \div MSG_BUF_SIZE = mb
       /\ e.k % MSG_BUF_SIZE # 0

\* C26: the driver never writes the ID word or a data word of a mailbox while
\* the mailbox's CODE says the controller owns it; in particular not in a
\* CAN_Send on a transmit mailbox whose previous frame is pending, nor in a
\* CAN_ConfigRxFilter on an armed receive mailbox.
C26_NoWriteWhileOwned ==
    [][\A mb \in Mailboxes : WritesPayload(mb) => ~HwOwned(regs, mb)]_vars

\* C27: with the interrupt taken again while a flag is pending and enabled,
\* either flags keep being raised, or the dispatcher clears every pending
\* flag: the pending flags are all clear again and again (for good, once no
\* flag is raised any more), whatever the codes of the pending mailboxes and
\* whether or not a callback is registered.
C27_PendingEventuallyCleared ==
    \/ []<><<DispatchBus>>_vars
    \/ []<>(regs.IFLAG1 \cap regs.IMASK1 = {})

\* C28: when the dispatcher services a mailbox whose code is RX-full, it reads
\* the four words of the mailbox, then clears the mailbox's flag, then writes
\* the CS word, and writes nothing else; when it returns, the mailbox's CODE is
\* RX-empty, the IDE and RTR bits of its CS word are those of the CS word read,
\* and its flag is clear.
C28_RxFullReactivated ==
    [][(/\ Dispatch /\ s_canCallbacks[isr'.inst] /\ regs.IFLAG1 # {}
        /\ CsCode(MbCs(regs, Lowest(regs.IFLAG1))) = CAN_CS_CODE_RX_FULL)
       => LET m == Lowest(regs.IFLAG1)
              off == CAN_GetMbOffset(m)
              cs == MbCs(regs, m)
              lg == isr'.log
          IN /\ \E i, j \in 1 .. Len(lg) :
                   /\ i < j
                   /\ lg[i] = FlagClear /\ lg[j] = WriteOf(off)
                   /\ AllBefore(lg, i, {ReadOf(off), ReadOf(off + 1), ReadOf(off + 2),
                                        ReadOf(off + 3)})
                   /\ \A k \in 1 .. Len(lg) : IsWrite(lg[k]) => k \in {i, j}
             /\ CsCode(MbCs(regs', m)) = CAN_CS_CODE_RX_EMPTY
             /\ CsIde(MbCs(regs', m)) = CsIde(cs)
             /\ CsRtr(MbCs(regs', m)) = CsRtr(cs)
             /\ m \notin regs'.IFLAG1]_vars

\* the dispatcher has serviced the mailbox that held an extended remote frame
C28_Witness ==
    /\ isr.st = "ret" /\ Len(isr.events) = 1
    /\ isr.events[1].event = CAN_EVENT_RX_COMPLETE
    /\ isr.events[1].message.v.id = MsgB.id
    /\ CsCode(MbCs(regs, isr.mb)) = CAN_CS_CODE_RX_EMPTY
    /\ CsIde(MbCs(regs, isr.mb)) = 1 /\ CsRtr(MbCs(regs, isr.mb)) = 1
    /\ isr.mb \notin regs.IFLAG1

\* a write of CAN_Init that configures the controller: bit timing and mode flags
\* in CTRL1, self-reception, RX FIFO and MAXMB in MCR, the mailbox words, the
\* individual masks, the global mask, the error counters and the flags
IsConfigWrite(acc) ==
    \/ acc.a # "R" /\ acc.r \in {"RAMn", "RXIMR", "RXMGMASK", "ECR", "IFLAG1"}
    \/ acc.r = "CTRL1" /\ acc.a = "W"
    \/ acc.r = "CTRL1" /\ acc.a \in {"SET", "CLR"} /\ acc.v \in {"lpb", "lom"}
    \/ acc.r = "MCR" /\ acc.a = "FLD"
    \/ acc.r = "MCR" /\ acc.a \in {"SET", "CLR"} /\ acc.v \cap {"SRXDIS", "RFEN"} # {}

\* base->MCR &= ~(CAN_MCR_FRZ_MASK | CAN_MCR_HALT_MASK)
IsExitRequest(acc) ==
    acc.r = "MCR" /\ acc.a = "CLR" /\ acc.v \cap {"FRZ", "HALT"} # {}

\* the register accesses CAN_Init makes in the step that is being taken: the
\* clock set-up and the freeze request at entry, the reset request when the
\* first busy-wait ends, the configuration and the exit request when the
\* second ends
InitStepProgram ==
    IF op # "CAN_Init"
    THEN CAN_EnableClock_Program(arg'.cfg.clockSource) \o CAN_EnterFreezeMode_Request
    ELSE IF loc.phase = "enter_freeze" THEN CAN_SoftReset_Request
    ELSE CAN_Init_Configure(arg.cfg, regs'.CTRL1.presdiv) \o CAN_ExitFreezeMode_Request

\* the busy-wait CAN_Init is in has ended with its condition met and budget left
WaitSucceeded == ~Waiting(regs, loc.phase) /\ loc.timeout > 0

\* C29: during CAN_Init every configuration write (CTRL1 timing and mode
\* flags, MCR self-reception, RX FIFO and MAXMB, the 128 mailbox words, the
\* individual masks, the global mask, the error counters) is made after the
\* waits of Enter Freeze and of Soft Reset have both succeeded and before the
\* Exit Freeze request; the initialized flag turns true only when the waits
\* of Exit Freeze have succeeded; and when CAN_Init returns success every
\* mailbox has CODE inactive and no flag is pending.
C29_InitOrder ==
    [][op' = "CAN_Init" =>
       LET first == op # "CAN_Init"
           old == IF first THEN << >> ELSE log
           P == InitStepProgram
       IN /\ Len(log') > Len(old) =>
               /\ log' = old \o Entries(P)
               /\ regs' = ApplyAll(regs, P)
               /\ (\E k \in 1 .. Len(P) : IsConfigWrite(P[k])) =>
                     /\ ~first /\ loc.phase = "soft_reset" /\ WaitSucceeded
                     /\ IsExitRequest(P[Len(P)])
                     /\ \A k \in 1 .. Len(P) :
                           IsConfigWrite(P[k]) => \A j \in 1 .. k : ~IsExitRequest(P[j])
                     /\ \E k \in 1 .. Len(P) : P[k].r = "CTRL1" /\ P[k].a = "W"
                     /\ \E k \in 1 .. Len(P) : P[k].r = "MCR" /\ P[k].a = "FLD" /\ P[k].v = CAN_MB_COUNT - 1
                     /\ \E k \in 1 .. Len(P) : P[k].r = "RAMn" /\ P[k].a = "FILL" /\ P[k].k = RAM_WORDS /\ P[k].v = ZeroWord
                     /\ \E k \in 1 .. Len(P) : P[k].r = "RXIMR" /\ P[k].a = "FILL"
                     /\ \E k \in 1 .. Len(P) : P[k].r = "RXMGMASK" /\ P[k].a = "W"
                     /\ \E k \in 1 .. Len(P) : P[k].r = "ECR" /\ P[k].a = "W" /\ P[k].v = 0
          /\ (~first /\ loc'.phase # loc.phase) => WaitSucceeded
          /\ (s_canInitialized'[arg'.inst] /\ ~s_canInitialized[arg'.inst]) =>
                ~first /\ loc.phase = "exit_notrdy" /\ WaitSucceeded
          /\ (pc # "ret" /\ pc' = "ret" /\ ret' = STATUS_SUCCESS) =>
                /\ s_canInitialized'[arg'.inst]
                /\ \A m \in Mailboxes :
                      CsCode(MbCs(regs', m)) = CAN_CS_CODE_RX_INACTIVE
                /\ regs'.IFLAG1 = {}]_vars

\* CAN_Init has succeeded on a controller whose transmit and receive mailboxes
\* had been set up and used before the call
C29_Witness ==
    /\ op = "CAN_Init" /\ pc = "ret" /\ ret = STATUS_SUCCESS
    /\ regs.IMASK1 = {CAN_TX_MB_START, CAN_RX_MB_START}
    /\ \A m \in Mailboxes : CsCode(MbCs(regs, m)) = CAN_CS_CODE_RX_INACTIVE
    /\ regs.IFLAG1 = {}

\* C30: once CAN_Init has succeeded the global acceptance mask RXMGMASK is in
\* the accept-all setting: with mask bit 1 = must match and 0 = don't care,
\* every identifier bit of the mask is 0, so a receive mailbox filtered by
\* the global mask accepts a frame of its identifier type whatever the
\* identifier.
C30_GlobalMaskAcceptAll ==
    s_canInitialized[0] =>
       /\ \A t \in {CAN_ID_STD, CAN_ID_EXT} :
             WordAnd(regs.RXMGMASK, IdField(t)) = ZeroWord
       /\ \A m \in Mailboxes :
             (/\ AcceptanceMask(regs, m) = regs.RXMGMASK
              /\ CsCode(MbCs(regs, m)) = CAN_CS_CODE_RX_EMPTY)
             => \A id \in BusIds :
                   Accepts(regs, m, [BusFrame(id) EXCEPT !.idType = CsIde(MbCs(regs, m))])

\* C31: when CAN_CalculateTiming succeeds, the segments it returns add up,
\* with the synchronisation quantum, to the number of time quanta per bit it
\* chose for the prescaler: 1 + propSeg + phaseSeg1 + phaseSeg2 = numTq, which
\* is 16 on the primary branch and 8 on the fallback branch.
C31_SegmentsSumToQuanta ==
    (op = "CAN_CalculateTiming" /\ pc = "ret" /\ ret = STATUS_SUCCESS)
    => /\ loc.numTq \in {16, 8}
       /\ 1 + timing.propSeg + timing.phaseSeg1 + timing.phaseSeg2 = loc.numTq

\* the words of mailbox mb
MbWords(mb) == {CAN_GetMbOffset(mb) + w : w \in 0 .. MSG_BUF_SIZE - 1}

\* C32: a dispatcher invocation taken between two register accesses of a
\* foreground CAN_Send writes no word of the mailbox being sent from and
\* leaves its four words as they were; and when the final CS write of CAN_Send
\* arms the mailbox, its ID word and its data words are the packed message
\* that was passed to CAN_Send.
C32_SendSurvivesDispatch ==
    [][/\ (Dispatch /\ op = "CAN_Send" /\ pc = "run") =>
            /\ \A n \in 1 .. Len(isr'.log) :
                  ~(IsWrite(isr'.log[n]) /\ isr'.log[n].r = "RAMn"
                    /\ isr'.log[n].k \in MbWords(arg.mb))
            /\ \A k \in MbWords(arg.mb) : regs'.RAMn[k] = regs.RAMn[k]
       /\ (op = "CAN_Send" /\ pc = "run" /\ pc' = "ret") =>
            LET off == CAN_GetMbOffset(arg.mb)
                m == arg.msg.v
            IN /\ log'[Len(log')] = WriteOf(off)
               /\ regs'.RAMn[off] = CAN_Send_Cs(m)
               /\ regs'.RAMn[off + 1] = EncodeId(m.id, m.idType)
               /\ regs'.RAMn[off + 2] = PackData0(m.data)
               /\ regs'.RAMn[off + 3] = PackData1(m.data)]_vars

\* the dispatcher has serviced the transmit mailbox, whose earlier frame went
\* out meanwhile, after CAN_Send has written data words and before it writes
\* the CS word
C32_Witness ==
    /\ op = "CAN_Send" /\ pc = "run" /\ loc.i \in 3 .. 5
    /\ isr.st = "ret" /\ isr.mb = arg.mb
    /\ Len(isr.events) = 1 /\ isr.events[1].event = CAN_EVENT_TX_COMPLETE

\* message m is frame f as the controller stored it: identifier, identifier
\* type, frame type, length and the payload bytes of that length
TakenFrom(m, f) ==
    /\ m.id = f.id /\ m.idType = f.idType /\ m.frameType = f.frameType
    /\ m.dataLength = f.dataLength
    /\ \A n \in 1 .. f.dataLength : m.data[n] = f.data[n]

\* C33: with dispatcher invocations taken between the register accesses of a
\* foreground CAN_Receive, and the controller storing frames into armed,
\* unlocked receive mailboxes, every message CAN_Receive returns with
\* STATUS_SUCCESS has its id, idType, frameType, dataLength and payload all
\* from one and the same received frame.
C33_ReceiveUntorn ==
    (op = "CAN_Receive" /\ pc = "ret" /\ ret = STATUS_SUCCESS)
    => \E f \in RxFrames : TakenFrom(outMsg, f)

\* the step leaves every mailbox other than m as it was: CS, ID and data
\* words, pending flag, interrupt-enable bit and individual mask
OthersUnchanged(m) ==
    \A k \in Mailboxes \ {m} :
       /\ \A w \in MbWords(k) : regs'.RAMn[w] = regs.RAMn[w]
       /\ (k \in regs'.IFLAG1) = (k \in regs.IFLAG1)
       /\ (k \in regs'.IMASK1) = (k \in regs.IMASK1)
       /\ regs'.RXIMR[k] = regs.RXIMR[k]

SingleMailboxOps == {"CAN_Send", "CAN_Receive", "CAN_ConfigRxFilter",
                     "CAN_ConfigTxMailbox", "CAN_AbortTransmission"}

\* C34: every register access of CAN_Send, CAN_Receive, CAN_ConfigRxFilter,
\* CAN_ConfigTxMailbox and CAN_AbortTransmission on mailbox m, and a
\* dispatcher invocation that services mailbox m, leaves the CS, ID and data
\* words, the pending flag, the interrupt-enable bit and the individual mask
\* of every other mailbox unchanged.
C34_OtherMailboxesUntouched ==
    [][/\ (op \in SingleMailboxOps /\ pc = "run" /\ loc'.i # loc.i) => OthersUnchanged(arg.mb)
       /\ (Dispatch /\ isr'.mb # -1) => OthersUnchanged(isr'.mb)]_vars

\* CAN_Send has armed the transmit mailbox while the receive mailbox holds a
\* frame whose flag is pending and enabled
C34_Witness ==
    /\ op = "CAN_Send" /\ pc = "ret" /\ ret = STATUS_SUCCESS
    /\ CAN_RX_MB_START \in regs.IFLAG1 \cap regs.IMASK1
    /\ CsCode(MbCs(regs, CAN_RX_MB_START)) = CAN_CS_CODE_RX_FULL
    /\ CsCode(MbCs(regs, arg.mb)) = CAN_CS_CODE_TX_DATA

\* the identifier type a call of CAN_Send or CAN_ConfigRxFilter was given
CallIdType == IF op = "CAN_Send" THEN arg.msg.v.idType ELSE arg.filter.idType

\* the identifier and type decoded from ID word idw as CS word cs directs
DecodedBy(cs, idw, m) ==
    IF CsIde(cs) # 0
    THEN m.idType = CAN_ID_EXT /\ m.id = Low29(idw)
    ELSE m.idType = CAN_ID_STD /\ m.id = Low29(idw) \div Pow2(18)

\* C35: identifier encodings are never mixed.  An ID word written by CAN_Send
\* or CAN_ConfigRxFilter for a standard identifier has no bit set outside
\* bits 18..28, and the CS word written with it has IDE clear; for an extended
\* identifier no bit outside bits 0..28 is set and the CS word has IDE set.
\* CAN_Receive and the dispatcher decode the identifier by the IDE bit of the
\* CS word they read, and by nothing else.
C35_EncodingsNotMixed ==
    [][/\ (op \in {"CAN_Send", "CAN_ConfigRxFilter"} /\ pc = "run" /\ loc'.i # loc.i) =>
            LET off == CAN_GetMbOffset(arg.mb)
                e == log'[Len(log')]
            IN /\ e = WriteOf(off + 1) =>
                     WordAnd(regs'.RAMn[off + 1], IdField(CallIdType)) = regs'.RAMn[off + 1]
               /\ e = WriteOf(off) =>
                     /\ CsIde(regs'.RAMn[off]) = (IF CallIdType = CAN_ID_EXT THEN 1 ELSE 0)
                     /\ WordAnd(regs'.RAMn[off + 1], IdField(CallIdType))
                           = regs'.RAMn[off + 1]
       /\ (op = "CAN_Receive" /\ pc = "run" /\ pc' = "ret") =>
            DecodedBy(loc'.cs, loc'.id, outMsg')
       /\ (Dispatch /\ isr'.events # << >>
           /\ isr'.events[1].event = CAN_EVENT_RX_COMPLETE) =>
            DecodedBy(MbCs(regs, isr'.mb), MbId(regs, isr'.mb), isr'.events[1].message.v)]_vars

\* CAN_Send has armed the mailbox with a standard identifier that was given
\* with more than 11 bits: the ID word holds its low 11 bits in bits 18..28
C35_Witness ==
    /\ op = "CAN_Send" /\ pc = "ret" /\ ret = STATUS_SUCCESS
    /\ arg.msg.v = MsgWide
    /\ MbId(regs, arg.mb) = Word((MsgWide.id % Pow2(11)) * Pow2(18))
    /\ CsIde(MbCs(regs, arg.mb)) = 0

\* the foreground CAN_Receive has read the four words of a frame out of its
\* mailbox, which has been locked since the CS read, and goes on to return
\* that frame with STATUS_SUCCESS
ReceiveHoldsFrame ==
    /\ op \in {"CAN_Receive", "CAN_ReceiveBlocking"} /\ pc = "run" /\ loc.i > 4
    /\ regs.lock = arg.mb

\* C36: a frame the controller stored into a receive mailbox is delivered at
\* most once: the dispatcher never passes to the RX-complete callback the
\* frame that a foreground CAN_Receive on the same mailbox has read out and
\* returns with STATUS_SUCCESS.
C36_DeliveredOnce ==
    ReceiveHoldsFrame
    => ~(/\ isr.st = "ret" /\ isr.mb = arg.mb /\ isr.events # << >>
         /\ isr.events[1].event = CAN_EVENT_RX_COMPLETE
         /\ isr.events[1].message.v.id = DecodeId(loc.id, CsIde(loc.cs))
         /\ isr.events[1].message.v.data = IRQ_Data(loc.data0, loc.data1,
                                                    IRQ_DataLength(loc.cs)))

\* in log lg the free-running timer is read after the CS word at offset off
TimerReadAfter(lg, off) ==
    \E i, j \in 1 .. Len(lg) : i < j /\ lg[i] = ReadOf(off) /\ lg[j] = TimerRead

\* C37: the mailbox lock taken by reading the CS word of a full receive
\* mailbox is released before the reading operation returns: when CAN_Receive
\* has returned success, and when a dispatcher invocation that read the CS
\* word of an RX-full mailbox returns, the free-running timer has been read
\* after that CS read.
C37_LockReleased ==
    /\ (op = "CAN_Receive" /\ pc = "ret" /\ ret = STATUS_SUCCESS)
         => TimerReadAfter(log, CAN_GetMbOffset(arg.mb))
    /\ (/\ isr.st = "ret" /\ isr.events # << >>
        /\ isr.events[1].event = CAN_EVENT_RX_COMPLETE)
         => TimerReadAfter(isr.log, CAN_GetMbOffset(isr.mb))

\* mailbox m is armed and empty, or already holds the next frame
Rearmed(m) == CsCode(MbCs(regs, m)) = CAN_CS_CODE_RX_EMPTY \/ m \in regs.IFLAG1

\* C38: after a successful retrieval of a frame from a receive mailbox, by a
\* foreground CAN_Receive as well as by the dispatcher, the mailbox is left
\* armed with CODE RX-empty, ready to store a second matching frame.
C38_RearmedAfterRetrieval ==
    /\ (op = "CAN_Receive" /\ pc = "ret" /\ ret = STATUS_SUCCESS) => Rearmed(arg.mb)
    /\ (/\ isr.st = "ret" /\ isr.events # << >>
        /\ isr.events[1].event = CAN_EVENT_RX_COMPLETE) => Rearmed(isr.mb)

\* C39: after CAN_Deinit(i) has returned and until CAN_Init succeeds again, a
\* dispatcher invocation for instance i invokes no callback and changes no
\* mailbox word and no pending flag, even when a callback had been registered
\* and flags are still pending: events are delivered only while the instance
\* is initialized.
C39_SilentAfterDeinit ==
    [][(/\ Dispatch /\ isr'.inst \in Instances /\ ~s_canInitialized[isr'.inst]
        /\ op # "CAN_Deinit")
       => /\ isr'.events = << >>
          /\ regs'.RAMn = regs.RAMn
          /\ regs'.IFLAG1 = regs.IFLAG1]_vars

====
